---------------------------- MODULE Spec2Model ----------------------------
(***************************************************************************)
(* Model of the osu-fantasy scoring engine                                 *)
(* (src/backend/app/calculate_pscores.py): the paged fetch of a match, the *)
(* per-match p-score calculation, the booster rule evaluator and the two   *)
(* ledger writers that main() runs over a batch of matches; the score      *)
(* change of src/backend/app/update_scores.py; and save_team of            *)
(* src/backend/app/main.py.                                                *)
(*                                                                         *)
(* Numbers.  Python computes p-scores in binary floating point.  The model *)
(* computes them exactly: a ratio is a reduced fraction <<num, den>>, a    *)
(* per-match p-score avg * sqrt(n / N) is a surd [coef, rad] (coef a       *)
(* fraction, rad a squarefree natural), and a weighted mean over matches   *)
(* is a set of surds with distinct radicands.  Rounding error of the       *)
(* floating-point operations is therefore not modelled.                    *)
(***************************************************************************)
EXTENDS Integers, Sequences, FiniteSets, TLC

VARIABLES
    md,            \* SpecCalc/SpecBoost: the match data handed to the calculator
    phase,         \* "source" | "failed" | "fetched" | "calculated" | "evaluated";
                   \* SpecScores: "pscores" | "changed" | "stored"
    results,       \* SpecCalc/SpecBoost: Dict[user_id, (pscore, maps_played, total_maps)]
    details,       \* SpecCalc/SpecBoost: Dict[user_id, player_details]
    call,          \* SpecBoost: the arguments of the last check_booster_activation call
    outcome,       \* SpecBoost: its return value (activated, points)
    source,        \* SpecFetch: the match source fetch_match talks to
    players_db,    \* Spec: the rows of table "2025owc" of players.db, in rowid order;
                   \* SpecTeam: the same table as row id -> cost
    users_db,      \* Spec: users.db, table users: osu_id -> score
    teams_db,      \* Spec: users.db, table teams: the rows of tournament owc2025;
                   \* SpecTeam: the rows of table teams as save_team writes them
    match_ids,     \* Spec: the match ids main() was started with
    pc,            \* Spec: where main() stands
    idx,           \* Spec: the position of the match loop in match_ids
    all_match_pscores,  \* Spec: main's list of per-match p-score results
    all_match_data,     \* Spec: main's list of (match_id, match_data)
    all_match_details,  \* Spec: main's list of per-match player details
    exit_code,     \* Spec: the exit status of main(), -1 while it runs
    start,         \* Spec: the ledger as it was when main() started
    write_error,   \* Spec: the ledger write that raised, NoWriteError for none
    scoring,       \* SpecScores: update_scores.py, the p-scores of a team, the score
                   \* change calculated from them and the user it was stored for
    saving         \* SpecTeam: the last save_team request, its status code and the
                   \* teams table before it

evalVars == <<md, phase, results, details, call, outcome, source>>
mainVars == <<players_db, users_db, teams_db, match_ids, pc, idx, all_match_pscores,
              all_match_data, all_match_details, exit_code, start, write_error, scoring,
              saving>>
vars == <<evalVars, mainVars>>

-----------------------------------------------------------------------------
(* Exact arithmetic                                                        *)

Abs(x) == IF x < 0 THEN -x ELSE x

RECURSIVE Gcd(_, _)
Gcd(a, b) == IF b = 0 THEN a ELSE Gcd(b, a % b)

\* The fraction n/d (d # 0) in lowest terms with a positive denominator.
Rat(n, d) ==
    LET g == Gcd(Abs(n), Abs(d))
        s == IF d < 0 THEN -1 ELSE 1
    IN  <<(s * n) \div g, (s * d) \div g>>

RatInt(n) == <<n, 1>>
RatAdd(p, q) == Rat(p[1] * q[2] + q[1] * p[2], p[2] * q[2])
RatMul(p, q) ==
    LET a == Rat(p[1], q[2])
        b == Rat(q[1], p[2])
    IN  Rat(a[1] * b[1], a[2] * b[2])
RatDiv(p, q) == RatMul(p, Rat(q[2], q[1]))
RatLeq(p, q) == p[1] * q[2] <= q[1] * p[2]
RatLess(p, q) == p[1] * q[2] < q[1] * p[2]

\* The largest k with k*k dividing m (m >= 1).
SquarePart(m) ==
    CHOOSE k \in 1..m : /\ m % (k * k) = 0
                        /\ \A j \in (k + 1)..m : j * j > m \/ m % (j * j) # 0

\* coef * sqrt(rad), rad squarefree; zero is [coef |-> <<0, 1>>, rad |-> 1].
Surd(c, r) == IF c[1] = 0 THEN [coef |-> <<0, 1>>, rad |-> 1] ELSE [coef |-> c, rad |-> r]

\* math.sqrt(q) for a fraction q >= 0: sqrt(a/b) = sqrt(a*b)/b = (k/b) * sqrt(d), a*b = k*k*d.
Sqrt(q) ==
    IF q[1] = 0 THEN Surd(<<0, 1>>, 1)
    ELSE LET m == q[1] * q[2]
             k == SquarePart(m)
         IN  Surd(Rat(k, q[2]), m \div (k * k))

SurdOfRat(q) == Surd(q, 1)
SurdScale(q, s) == Surd(RatMul(q, s.coef), s.rad)

\* The sign-preserving square of a surd: x |-> sign(x) * x^2 is increasing, so surds
\* compare as their signed squares do.
SignedSquare(s) ==
    LET sq == RatMul(RatMul(s.coef, s.coef), RatInt(s.rad))
    IN  IF s.coef[1] < 0 THEN <<-sq[1], sq[2]>> ELSE sq
SurdLeq(s, t) == RatLeq(SignedSquare(s), SignedSquare(t))

\* A real number as a finite sum of surds with distinct radicands and non-zero
\* coefficients (the empty set is 0).  Distinct squarefree radicands are linearly
\* independent over the fractions, so two sums are equal exactly when the sets are.
RealCoef(x, r) == IF \E t \in x : t.rad = r THEN (CHOOSE t \in x : t.rad = r).coef ELSE <<0, 1>>
RealRads(x) == {t.rad : t \in x}
RealOf(s) == IF s.coef[1] = 0 THEN {} ELSE {s}
RealAdd(x, y) ==
    {t \in {[coef |-> RatAdd(RealCoef(x, r), RealCoef(y, r)), rad |-> r] :
                r \in RealRads(x) \cup RealRads(y)} : t.coef[1] # 0}
RealScale(q, x) == {t \in {[coef |-> RatMul(q, s.coef), rad |-> s.rad] : s \in x} : t.coef[1] # 0}

-----------------------------------------------------------------------------
(* Match data                                                              *)

\* A text as the sequence of its characters, for the code's lower() and "in".
UpperChars == <<"A","B","C","D","E","F","G","H","I","J","K","L","M",
                "N","O","P","Q","R","S","T","U","V","W","X","Y","Z">>
LowerChars == <<"a","b","c","d","e","f","g","h","i","j","k","l","m",
                "n","o","p","q","r","s","t","u","v","w","x","y","z">>

\* One score entry of a game ("scores" element of the API's game object).
\* user_id 0 stands for a missing id, score 0 for a missing or zero score,
\* team "" for a missing team, beatmap <<>> for no beatmap object in the entry.
Entry(u, s, combo, mods, rank, team) ==
    [user_id |-> u, score |-> s, max_combo |-> combo, mods |-> mods,
     rank |-> rank, team |-> team, beatmap |-> <<>>]

\* One event of a match: has_game is the truth value of event.get("game"),
\* beatmap the game's beatmap.version, scores the game's score entries.
GameEvent(version, scores) == [has_game |-> TRUE, beatmap |-> version, scores |-> scores]
OtherEvent == [has_game |-> FALSE, beatmap |-> <<>>, scores |-> <<>>]


-----------------------------------------------------------------------------
(* Python helpers                                                          *)

\* A dict as a function; the empty dict.
EmptyDict == <<>>
Put(d, k, v) == [x \in (DOMAIN d) \cup {k} |-> IF x = k THEN v ELSE d[x]]
Get(d, k, default) == IF k \in DOMAIN d THEN d[k] ELSE default

RECURSIVE SumInts(_)
SumInts(seq) == IF seq = <<>> THEN 0 ELSE Head(seq) + SumInts(Tail(seq))

\* sum(...) of fractions: a left fold from 0.
RECURSIVE SumRatsFrom(_, _, _)
SumRatsFrom(acc, seq, i) ==
    IF i > Len(seq) THEN acc ELSE SumRatsFrom(RatAdd(acc, seq[i]), seq, i + 1)
SumRats(seq) == SumRatsFrom(<<0, 1>>, seq, 1)

RECURSIVE DictValues(_)
DictValues(d) ==
    IF DOMAIN d = {} THEN <<>>
    ELSE LET k == CHOOSE x \in DOMAIN d : TRUE
         IN  <<d[k]>> \o DictValues([x \in (DOMAIN d) \ {k} |-> d[x]])

RECURSIVE InsertSorted(_, _)
InsertSorted(x, seq) ==
    IF seq = <<>> THEN <<x>>
    ELSE IF x <= Head(seq) THEN <<x>> \o seq
    ELSE <<Head(seq)>> \o InsertSorted(x, Tail(seq))

RECURSIVE sorted(_)
sorted(seq) == IF seq = <<>> THEN <<>> ELSE InsertSorted(Head(seq), sorted(Tail(seq)))

\* Mutant of median: the lower middle value instead of the mean of the two middle ones.
median_low(data) ==
    LET s == sorted(data)
    IN  RatInt(s[(Len(s) + 1) \div 2])

\* statistics.median of a non-empty list of integers.
median(data) ==
    LET s == sorted(data)
        n == Len(s)
    IN  IF n % 2 = 1 THEN RatInt(s[(n + 1) \div 2])
        ELSE Rat(s[n \div 2] + s[n \div 2 + 1], 2)

\* statistics.mean of a non-empty list of integers.
mean(data) == Rat(SumInts(data), Len(data))

-----------------------------------------------------------------------------
(* calculate_match_pscore_with_details                                     *)

\* Mutant of Games: every event counts as a game.
Games_AllEvents(events) == events

\* games = [event for event in events if event.get("game")]
Games(events) == SelectSeq(events, LAMBDA e : e.has_game)

\* The defaultdict factory of player_details.
NewDetails == [user_id |-> 0, maps_played |-> 0, scores |-> <<>>, team |-> ""]

\* score_copy = dict(score_data); score_copy["game_data"] = game
ScoreCopy(score_data, game) == [game_data |-> game] @@ score_data

\* Mutant of TeamLabel: a later entry with a team overrides the label.
TeamLabel_Latest(team, entry_team) == IF entry_team # "" THEN entry_team ELSE team

\* if not player_details[user_id]["team"] and score_data.get("match", {}).get("team"):
\* the label after an entry ("" is a missing, null or empty label).
TeamLabel(team, entry_team) == IF team = "" /\ entry_team # "" THEN entry_team ELSE team

\* The body of "for score_data in scores" of the first loop, from entry i on:
\* acc = [counts |-> player_map_counts, details |-> player_details].
RECURSIVE CollectScores(_, _, _)
CollectScores(acc, game, i) ==
    IF i > Len(game.scores) THEN acc
    ELSE LET score_data == game.scores[i]
             user_id == score_data.user_id
             old == Get(acc.details, user_id, NewDetails)
             new == [user_id |-> user_id,
                     maps_played |-> old.maps_played + 1,
                     scores |-> Append(old.scores, ScoreCopy(score_data, game)),
                     team |-> TeamLabel(old.team, score_data.team)]
         IN  IF user_id = 0 THEN CollectScores(acc, game, i + 1)
             ELSE CollectScores(
                    [counts |-> Put(acc.counts, user_id, Get(acc.counts, user_id, 0) + 1),
                     details |-> Put(acc.details, user_id, new)], game, i + 1)

\* The first loop over the games, from game g on.
RECURSIVE CollectGames(_, _, _)
CollectGames(acc, games, g) ==
    IF g > Len(games) THEN acc
    ELSE CollectGames(CollectScores(acc, games[g], 1), games, g + 1)

\* map_scores = [s.get("score", 0) for s in scores if s.get("score")]
RECURSIVE MapScores(_)
MapScores(scores) ==
    IF scores = <<>> THEN <<>>
    ELSE (IF Head(scores).score # 0 THEN <<Head(scores).score>> ELSE <<>>)
         \o MapScores(Tail(scores))

NewPlayerScores == [score_ratios |-> <<>>, maps_played |-> 0]

\* "for score_data in scores" of the second loop: one ratio per entry with an id and a score.
RECURSIVE AddRatios(_, _, _, _)
AddRatios(player_scores, scores, median_score, i) ==
    IF i > Len(scores) THEN player_scores
    ELSE LET user_id == scores[i].user_id
             player_score == scores[i].score
             old == Get(player_scores, user_id, NewPlayerScores)
             ratio == RatDiv(RatInt(player_score), median_score)
         IN  IF user_id # 0 /\ player_score # 0
             THEN AddRatios(Put(player_scores, user_id,
                                [score_ratios |-> Append(old.score_ratios, ratio),
                                 maps_played |-> old.maps_played + 1]),
                            scores, median_score, i + 1)
             ELSE AddRatios(player_scores, scores, median_score, i + 1)

\* The second loop over the games: a game without a non-zero score, or with median 0, is skipped.
RECURSIVE ScoreGames(_, _, _)
ScoreGames(player_scores, games, g) ==
    IF g > Len(games) THEN player_scores
    ELSE LET scores == games[g].scores
             map_scores == MapScores(scores)
         IN  IF map_scores = <<>> THEN ScoreGames(player_scores, games, g + 1)
             ELSE IF median(map_scores)[1] = 0 THEN ScoreGames(player_scores, games, g + 1)
             ELSE ScoreGames(AddRatios(player_scores, scores, median(map_scores), 1),
                             games, g + 1)

\* Mutant of PScoreOf: the normalization sqrt(n / N) left out.
PScoreOf_NoNorm(data, N_mean) ==
    SurdOfRat(RatDiv(SumRats(data.score_ratios), RatInt(data.maps_played)))

\* pscore = avg_ratio * normalization for one player.
PScoreOf(data, N_mean) ==
    LET n == data.maps_played
        avg_ratio == RatDiv(SumRats(data.score_ratios), RatInt(n))
        normalization == IF N_mean[1] > 0 THEN Sqrt(RatDiv(RatInt(n), N_mean))
                         ELSE SurdOfRat(<<1, 1>>)
    IN  SurdScale(avg_ratio, normalization)

\* The final loop: results[user_id] = (pscore, n, total_maps), players with n = 0 left out.
FinalResults(player_scores, N_mean, total_maps) ==
    [user_id \in {u \in DOMAIN player_scores : player_scores[u].maps_played # 0} |->
        [pscore |-> PScoreOf(player_scores[user_id], N_mean),
         maps_played |-> player_scores[user_id].maps_played,
         total_maps |-> total_maps]]

\* Returns [results |-> Dict[user_id, result], details |-> Dict[user_id, player_details]].
calculate_match_pscore_with_details(match_data) ==
    LET games == Games(match_data)
        first == CollectGames([counts |-> EmptyDict, details |-> EmptyDict], games, 1)
        N_mean == mean(DictValues(first.counts))
        player_scores == ScoreGames(EmptyDict, games, 1)
    IN  IF games = <<>> THEN [results |-> EmptyDict, details |-> EmptyDict]
        ELSE IF DOMAIN first.counts = {} THEN [results |-> EmptyDict, details |-> EmptyDict]
        ELSE [results |-> FinalResults(player_scores, N_mean, Len(games)),
              details |-> first.details]


-----------------------------------------------------------------------------
(* check_booster_activation                                                *)

\* An insertion-ordered dict of integers (a defaultdict(int)) as a sequence of
\* [key, value]: max(d, key=d.get) returns the first key, in insertion order, whose
\* value is the largest.
OdHas(od, k) == \E i \in 1..Len(od) : od[i].key = k
OdAdd(od, k, v) ==
    IF OdHas(od, k)
    THEN [i \in 1..Len(od) |-> IF od[i].key = k
                               THEN [key |-> k, value |-> od[i].value + v] ELSE od[i]]
    ELSE Append(od, [key |-> k, value |-> v])
OdMaxKey(od) ==
    LET i == CHOOSE x \in 1..Len(od) :
                 /\ \A j \in 1..Len(od) : od[j].value <= od[x].value
                 /\ \A j \in 1..(x - 1) : od[j].value < od[x].value
    IN  od[i].key

\* team_scores_per_map of one game: the summed score of every non-empty team label.
RECURSIVE TeamScoresPerMap(_, _, _)
TeamScoresPerMap(od, game_scores, i) ==
    IF i > Len(game_scores) THEN od
    ELSE TeamScoresPerMap(
            IF game_scores[i].team # "" THEN OdAdd(od, game_scores[i].team, game_scores[i].score)
            ELSE od,
            game_scores, i + 1)

\* team_map_wins over the events, from event e on: one win per game with a team score.
RECURSIVE TeamMapWins(_, _, _)
TeamMapWins(od, events, e) ==
    IF e > Len(events) THEN od
    ELSE LET per_map == TeamScoresPerMap(<<>>, events[e].scores, 1)
         IN  IF ~events[e].has_game \/ events[e].scores = <<>> \/ per_map = <<>>
             THEN TeamMapWins(od, events, e + 1)
             ELSE TeamMapWins(OdAdd(od, OdMaxKey(per_map), 1), events, e + 1)

\* "727" in str(n): three consecutive decimal digits 7, 2, 7.
RECURSIVE Has727(_)
Has727(n) ==
    IF n < 0 THEN Has727(-n)
    ELSE IF n < 727 THEN FALSE
    ELSE n % 1000 = 727 \/ Has727(n \div 10)

\* str.lower() and the substring test of two texts.
LowerChar(c) ==
    IF \E i \in 1..Len(UpperChars) : UpperChars[i] = c
    THEN LowerChars[CHOOSE i \in 1..Len(UpperChars) : UpperChars[i] = c]
    ELSE c
lower(text) == [i \in 1..Len(text) |-> LowerChar(text[i])]
Contains(text, part) ==
    \E k \in 0..(Len(text) - Len(part)) : \A i \in 1..Len(part) : text[k + i] = part[i]

\* The four labels booster 10 looks for.
TiebreakerLabels ==
    {<<"d","e","s","t","i","n"," ","v","i","c","t","o","r","i","c","a">>,
     <<"n","o","s","t","a","l","g","i","a">>,
     <<"t","i","e","b","r","e","a","k","e","r">>,
     <<"t","b">>}

\* difficulty of one score: the entry's own beatmap version, else the game's.
Difficulty(score_data) ==
    IF lower(score_data.beatmap) # <<>> THEN lower(score_data.beatmap)
    ELSE lower(score_data.game_data.beatmap)

IsSRank(score_data) == score_data.rank \in {"S", "SS", "SH"}

MinValue(d) == CHOOSE v \in {d[k] : k \in DOMAIN d} : \A k \in DOMAIN d : SurdLeq(v, d[k])
MaxValue(d) == CHOOSE v \in {d[k] : k \in DOMAIN d} : \A k \in DOMAIN d : SurdLeq(d[k], v)
MaxScore(scores) ==
    CHOOSE v \in {scores[i].score : i \in 1..Len(scores)} :
        \A i \in 1..Len(scores) : scores[i].score <= v

Result(activated, points) == [activated |-> activated, points |-> points]

\* The p-score 1.0 given to a player without a result (booster 3), and the 1.8 of booster 7.
PScoreOne == SurdOfRat(<<1, 1>>)
PScoreFaker == SurdOfRat(<<9, 5>>)
PScoreZero == SurdOfRat(<<0, 1>>)

\* The summed score of every team label over all games of the match, from event e on.
RECURSIVE TeamTotals(_, _, _)
TeamTotals(od, events, e) ==
    IF e > Len(events) THEN od
    ELSE TeamTotals(IF events[e].has_game THEN TeamScoresPerMap(od, events[e].scores, 1)
                    ELSE od,
                    events, e + 1)

\* Mutant of Booster2: the winner is the team with the largest total score.
Booster2_ByTotal(player_data, match_data) ==
    IF /\ player_data.team # ""
       /\ TeamTotals(<<>>, match_data, 1) # <<>>
       /\ player_data.team = OdMaxKey(TeamTotals(<<>>, match_data, 1))
    THEN Result(TRUE, 5) ELSE Result(FALSE, -5)

Booster2(player_data, match_data) ==
    LET team == player_data.team
        team_map_wins == TeamMapWins(<<>>, match_data, 1)
    IN  IF team # "" /\ team_map_wins # <<>> /\ team = OdMaxKey(team_map_wins)
        THEN Result(TRUE, 5) ELSE Result(FALSE, -5)

\* Mutant of Booster3: -5 instead of -2 when not activated.
Booster3_Off5(user_id, all_player_pscores) ==
    IF DOMAIN all_player_pscores = {} THEN Result(FALSE, -5)
    ELSE IF /\ Get(all_player_pscores, user_id, SurdOfRat(<<1, 1>>)) = MinValue(all_player_pscores)
            /\ SurdLeq(Get(all_player_pscores, user_id, SurdOfRat(<<1, 1>>)), SurdOfRat(<<1, 1>>))
    THEN Result(TRUE, 5) ELSE Result(FALSE, -5)

\* Mutant of Booster3: a player without a result is given the p-score 0.
Booster3_DefaultZero(user_id, all_player_pscores) ==
    IF DOMAIN all_player_pscores = {} THEN Result(FALSE, -2)
    ELSE IF /\ Get(all_player_pscores, user_id, PScoreZero) = MinValue(all_player_pscores)
            /\ SurdLeq(Get(all_player_pscores, user_id, PScoreZero), PScoreOne)
    THEN Result(TRUE, 5) ELSE Result(FALSE, -2)

Booster3(user_id, all_player_pscores) ==
    IF DOMAIN all_player_pscores = {} THEN Result(FALSE, -2)
    ELSE LET min_pscore == MinValue(all_player_pscores)
             player_pscore == Get(all_player_pscores, user_id, PScoreOne)
         IN  IF player_pscore = min_pscore /\ SurdLeq(player_pscore, PScoreOne)
             THEN Result(TRUE, 5) ELSE Result(FALSE, -2)

Booster4(scores) ==
    IF \E i \in 1..Len(scores) : Has727(scores[i].score) \/ scores[i].max_combo = 727
    THEN Result(TRUE, 7) ELSE Result(FALSE, 0)

\* Mutant of Booster5: the number of maps played is not looked at.
Booster5_AnyMaps(maps_played, scores) ==
    IF /\ scores # <<>>
       /\ scores[1].game_data.scores # <<>>
       /\ scores[1].score = MaxScore(scores[1].game_data.scores)
    THEN Result(TRUE, 5) ELSE Result(FALSE, -5)

Booster5(maps_played, scores) ==
    IF /\ maps_played = 1
       /\ scores # <<>>
       /\ scores[1].game_data.scores # <<>>
       /\ scores[1].score = MaxScore(scores[1].game_data.scores)
    THEN Result(TRUE, 5) ELSE Result(FALSE, -5)

Booster6(scores) ==
    IF \E i \in 1..Len(scores) :
          /\ scores[i].mods \cap {"DT", "NC"} # {}
          /\ scores[i].rank \in {"B", "C", "D"}
    THEN Result(TRUE, 6) ELSE Result(FALSE, -2)

\* Mutant of Booster7: the p-score must exceed 1.8.
Booster7_Above(user_id, all_player_pscores) ==
    IF DOMAIN all_player_pscores = {} THEN Result(FALSE, -5)
    ELSE IF /\ Get(all_player_pscores, user_id, PScoreZero) = MaxValue(all_player_pscores)
            /\ ~SurdLeq(Get(all_player_pscores, user_id, PScoreZero), PScoreFaker)
    THEN Result(TRUE, 5) ELSE Result(FALSE, -5)

Booster7(user_id, all_player_pscores) ==
    IF DOMAIN all_player_pscores = {} THEN Result(FALSE, -5)
    ELSE LET player_pscore == Get(all_player_pscores, user_id, PScoreZero)
             max_pscore == MaxValue(all_player_pscores)
         IN  IF player_pscore = max_pscore /\ SurdLeq(PScoreFaker, player_pscore)
             THEN Result(TRUE, 5) ELSE Result(FALSE, -5)

Booster8(scores) ==
    IF /\ Len(scores) >= 3
       /\ \E i \in 1..(Len(scores) - 2) :
             IsSRank(scores[i]) /\ IsSRank(scores[i + 1]) /\ IsSRank(scores[i + 2])
    THEN Result(TRUE, 10) ELSE Result(FALSE, -10)

\* Mutant of Booster9: a score of 900000 is enough.
Booster9_AtLeast(scores) ==
    IF \E i \in 1..Len(scores) : scores[i].score >= 900000
    THEN Result(TRUE, 5) ELSE Result(FALSE, -5)

Booster9(scores) ==
    IF \E i \in 1..Len(scores) : scores[i].score > 900000
    THEN Result(TRUE, 5) ELSE Result(FALSE, -5)

Booster10(scores) ==
    IF \E i \in 1..Len(scores) : \E label \in TiebreakerLabels :
          Contains(Difficulty(scores[i]), label)
    THEN Result(TRUE, 3) ELSE Result(FALSE, 0)

\* Mutant of Booster11: only the games with a score entry count as maps of the match.
Booster11_ScoredMaps(maps_played, match_data) ==
    IF /\ maps_played = Len(SelectSeq(Games(match_data), LAMBDA e : e.scores # <<>>))
       /\ Len(SelectSeq(Games(match_data), LAMBDA e : e.scores # <<>>)) > 0
    THEN Result(TRUE, 5) ELSE Result(FALSE, -5)

Booster11(maps_played, match_data) ==
    LET total_maps == Len(Games(match_data))
    IN  IF maps_played = total_maps /\ total_maps > 0
        THEN Result(TRUE, 5) ELSE Result(FALSE, -5)

Booster12(maps_played, scores) ==
    IF maps_played = 0 THEN Result(FALSE, -5)
    ELSE IF \E i \in 1..Len(scores) : scores[i].max_combo >= 1000 THEN Result(FALSE, -5)
    ELSE Result(TRUE, 5)

\* The if/elif chain: ids 2..12 have a branch, every other id falls through to (False, 0).
check_booster_activation(booster_id, player_data, match_data, all_player_pscores) ==
    LET user_id == player_data.user_id
        maps_played == player_data.maps_played
        scores == player_data.scores
    IN  CASE booster_id = 2 -> Booster2(player_data, match_data)
          [] booster_id = 3 -> Booster3(user_id, all_player_pscores)
          [] booster_id = 4 -> Booster4(scores)
          [] booster_id = 5 -> Booster5(maps_played, scores)
          [] booster_id = 6 -> Booster6(scores)
          [] booster_id = 7 -> Booster7(user_id, all_player_pscores)
          [] booster_id = 8 -> Booster8(scores)
          [] booster_id = 9 -> Booster9(scores)
          [] booster_id = 10 -> Booster10(scores)
          [] booster_id = 11 -> Booster11(maps_played, match_data)
          [] booster_id = 12 -> Booster12(maps_played, scores)
          [] OTHER -> Result(FALSE, 0)

-----------------------------------------------------------------------------
(* fetch_match                                                             *)

PageLimit == 100
MaxPages == 20

\* The match source: the events of the match in the order they happened (the id of an
\* event is its position), how it serves a page, and the number of the request that
\* is answered with an error status (0: none).  A page holds the events before the
\* given id, oldest first ("asc") or newest first ("desc"); a source that does not
\* keep to this returns the event with the given id as well ("overlap") or ignores
\* the id and returns the latest page again ("same").
Source(events, order, fail_at) == [events |-> events, order |-> order, fail_at |-> fail_at]
NoSource == Source(<<>>, "asc", 0)

\* GET /matches/{id}?limit=100[&before=id]: the PageLimit latest events, those before
\* the given id when one is given (before = 0: not given).
Request(src, before, request_no) ==
    LET hi == IF before = 0 \/ src.order = "same" THEN Len(src.events)
              ELSE IF src.order = "overlap" THEN before
              ELSE before - 1
        lo == IF hi - PageLimit + 1 < 1 THEN 1 ELSE hi - PageLimit + 1
        count == IF hi >= lo THEN hi - lo + 1 ELSE 0
    IN  [ok |-> src.fail_at # request_no,
         events |-> [i \in 1..count |->
                        LET id == IF src.order = "desc" THEN hi - i + 1 ELSE lo + i - 1
                        IN  [id |-> id, ev |-> src.events[id]]]]

MinId(all_events) ==
    CHOOSE id \in {all_events[i].id : i \in 1..Len(all_events)} :
        \A i \in 1..Len(all_events) : id <= all_events[i].id

\* Mutant of MorePages: no limit on the number of pages.
MorePages_NoLimit(all_events, page) ==
    Len(all_events) > 0 /\ Len(all_events) % PageLimit = 0

\* while len(all_events) > 0 and len(all_events) % 100 == 0 and page < 20
MorePages(all_events, page) ==
    Len(all_events) > 0 /\ Len(all_events) % PageLimit = 0 /\ page < MaxPages

\* The while loop: all_events and page (the number of requests made) when it ends.
RECURSIVE FetchMore(_, _, _)
FetchMore(src, all_events, page) ==
    IF MorePages(all_events, page)
    THEN LET r == Request(src, MinId(all_events), page + 1)
             seen == {all_events[i].id : i \in 1..Len(all_events)}
             new_events == SelectSeq(r.events, LAMBDA e : e.id \notin seen)
             stopped == [events |-> all_events, page |-> page + 1]
         IN  IF ~r.ok THEN stopped
             ELSE IF r.events = <<>> THEN stopped
             ELSE IF new_events = <<>> THEN stopped
             ELSE IF Len(r.events) < PageLimit
                  THEN [events |-> all_events \o new_events, page |-> page + 1]
             ELSE FetchMore(src, all_events \o new_events, page + 1)
    ELSE [events |-> all_events, page |-> page]

\* all_events and page when fetch_match returns; ok = FALSE when it raises on the
\* first page.
AllEvents(src) ==
    LET first == Request(src, 0, 1)
        more == FetchMore(src, first.events, 1)
    IN  IF ~first.ok THEN [ok |-> FALSE, events |-> <<>>, page |-> 1]
        ELSE [ok |-> TRUE, events |-> more.events, page |-> more.page]

\* match_data["events"] as the calculator and the evaluator read it (they do not
\* read the event ids).
WithoutIds(all_events) == [i \in 1..Len(all_events) |-> all_events[i].ev]
FetchFrom(src) ==
    [ok |-> AllEvents(src).ok, events |-> WithoutIds(AllEvents(src).events)]

-----------------------------------------------------------------------------
(* SpecCalc: the calculator applied to every match of a bounded set        *)

CalcMaxEvents == 2

CalcScores == {0, 50000, 100000}
CalcTeam(u) == IF u = 1 THEN "red" ELSE IF u = 2 THEN "blue" ELSE ""
CalcEntry(u, s) == Entry(u, s, 500, {}, "A", CalcTeam(u))

\* The entries player u can have in one game: none, or one with a score of S.
CalcSlots(u, S) == {<<>>} \cup {<<CalcEntry(u, s)>> : s \in S}

\* Every game of players 1 and 2 (each absent or with one score) and of an entry
\* without user id (absent or 50000); three games more: the second map of the
\* fixture, a player entered twice on one map, and a map whose median is 0; two
\* games in which player 1 carries no team label and the label of the other team.
CalcGames ==
    {GameEvent(<<>>, a \o b \o c) :
        a \in CalcSlots(1, CalcScores), b \in CalcSlots(2, CalcScores),
        c \in CalcSlots(0, {50000})}
    \cup {GameEvent(<<>>, <<CalcEntry(1, 80000), CalcEntry(2, 80000)>>),
          GameEvent(<<>>, <<CalcEntry(1, 50000), CalcEntry(1, 100000)>>),
          GameEvent(<<>>, <<CalcEntry(1, -50000), CalcEntry(2, 50000)>>),
          GameEvent(<<>>, <<Entry(1, 50000, 500, {}, "A", "")>>),
          GameEvent(<<>>, <<Entry(1, 50000, 500, {}, "A", ""),
                            Entry(1, 100000, 500, {}, "A", "blue")>>)}

CalcMatches == UNION {[1..n -> CalcGames \cup {OtherEvent}] : n \in 0..CalcMaxEvents}

\* No save_team request has been made.
NoSaving == [request |-> <<>>, status |-> 0, before |-> <<>>]

\* update_scores.py has not run.
NoScoring == [pscores |-> <<>>, score_change |-> 0, user_osu_id |-> 0]

\* No UPDATE of the ledger has raised.
NoWriteError == [table |-> "none", id |-> 0]

\* The variables of main() while only the calculator or the evaluator is exercised.
IdleMain ==
    /\ players_db = <<>>
    /\ users_db = <<>>
    /\ teams_db = <<>>
    /\ match_ids = <<>>
    /\ pc = "idle"
    /\ idx = 0
    /\ all_match_pscores = <<>>
    /\ all_match_data = <<>>
    /\ all_match_details = <<>>
    /\ exit_code = -1
    /\ start = <<>>
    /\ write_error = NoWriteError
    /\ scoring = NoScoring
    /\ saving = NoSaving

NoCall == [booster_id |-> 0, user_id |-> 0]
NoOutcome == [activated |-> FALSE, points |-> 0]

InitCalc ==
    /\ md \in CalcMatches
    /\ phase = "fetched"
    /\ results = EmptyDict
    /\ details = EmptyDict
    /\ call = NoCall
    /\ outcome = NoOutcome
    /\ source = NoSource
    /\ IdleMain

\* match_pscores, match_player_details = calculate_match_pscore_with_details(match_data)
Calculate ==
    /\ phase = "fetched"
    /\ LET r == calculate_match_pscore_with_details(md)
       IN  /\ results' = r.results
           /\ details' = r.details
    /\ phase' = "calculated"
    /\ UNCHANGED <<md, call, outcome, source, mainVars>>

NextCalc == Calculate

SpecCalc == InitCalc /\ [][NextCalc]_vars

\* The fixture of the specification: two maps, two players.
FixtureMatch ==
    <<GameEvent(<<>>, <<CalcEntry(1, 100000), CalcEntry(2, 50000)>>),
      GameEvent(<<>>, <<CalcEntry(1, 80000), CalcEntry(2, 80000)>>)>>

-----------------------------------------------------------------------------
(* The p-score formula restated over the event list, without the loops     *)

RECURSIVE SumRatFun(_)
SumRatFun(f) ==
    IF DOMAIN f = {} THEN <<0, 1>>
    ELSE LET k == CHOOSE x \in DOMAIN f : TRUE
         IN  RatAdd(f[k], SumRatFun([x \in (DOMAIN f) \ {k} |-> f[x]]))

\* The events of m that carry a game, and the places <<g, i>> of their score entries.
RefGames(m) == {g \in 1..Len(m) : m[g].has_game}
RefPlaces(m) == UNION {{<<g, i>> : i \in 1..Len(m[g].scores)} : g \in RefGames(m)}
RefEntry(m, pl) == m[pl[1]].scores[pl[2]]

\* The k-th smallest of the non-zero scores of game g, by counting.
RefScored(m, g) == {i \in 1..Len(m[g].scores) : m[g].scores[i].score # 0}
RefKth(m, g, k) ==
    CHOOSE v \in {m[g].scores[i].score : i \in RefScored(m, g)} :
        /\ Cardinality({i \in RefScored(m, g) : m[g].scores[i].score < v}) < k
        /\ k <= Cardinality({i \in RefScored(m, g) : m[g].scores[i].score <= v})
RefMedian(m, g) ==
    LET n == Cardinality(RefScored(m, g))
    IN  IF n % 2 = 1 THEN RatInt(RefKth(m, g, (n + 1) \div 2))
        ELSE Rat(RefKth(m, g, n \div 2) + RefKth(m, g, n \div 2 + 1), 2)

\* The maps that enter the ratios: at least one non-zero score and a non-zero median.
RefCounted(m, g) == RefScored(m, g) # {} /\ RefMedian(m, g)[1] # 0

\* The places where player u played a counted map with a non-zero score: n is their number.
RefPlayed(m, u) ==
    {pl \in RefPlaces(m) : /\ RefEntry(m, pl).user_id = u
                           /\ RefEntry(m, pl).score # 0
                           /\ RefCounted(m, pl[1])}
RefRatioSum(m, u) ==
    SumRatFun([pl \in RefPlayed(m, u) |->
                  RatDiv(RatInt(RefEntry(m, pl).score), RefMedian(m, pl[1]))])

\* The players with an entry, and the mean number of entries per such player.
RefPlayers(m) == {RefEntry(m, pl).user_id : pl \in RefPlaces(m)} \ {0}
RefMeanMaps(m) ==
    Rat(Cardinality({pl \in RefPlaces(m) : RefEntry(m, pl).user_id # 0}),
        Cardinality(RefPlayers(m)))

\* x = (R / n) * sqrt(n / N) for a surd x, stated on squares: x and R have the same
\* sign and x^2 = (R / n)^2 * (n / N).
RefIsPScore(x, R, n, N) ==
    LET avg == RatDiv(R, RatInt(n))
        sq == RatMul(RatMul(avg, avg), RatDiv(RatInt(n), N))
    IN  SignedSquare(x) = (IF R[1] < 0 THEN <<-sq[1], sq[2]>> ELSE sq)

\* C5: after calculate_match_pscore_with_details, exactly the players with n >= 1
\* counted maps (a non-zero score on a map with a non-zero median) have a result;
\* the result is (pscore, n, number of games) with
\* pscore = (sum of score/median over the n maps) / n * sqrt(n / N), N the mean
\* number of entries per player of the match; on the fixture of two maps
\* {1: 100000, 2: 50000}, {1: 80000, 2: 80000} the p-scores are 7/6 and 5/6 with n = 2.
C5_PScoreFormula ==
    phase = "calculated" =>
        /\ DOMAIN results = {u \in RefPlayers(md) : RefPlayed(md, u) # {}}
        /\ \A u \in DOMAIN results :
              /\ results[u].maps_played = Cardinality(RefPlayed(md, u))
              /\ results[u].total_maps = Cardinality(RefGames(md))
              /\ RefIsPScore(results[u].pscore, RefRatioSum(md, u),
                             Cardinality(RefPlayed(md, u)), RefMeanMaps(md))
        /\ md = FixtureMatch =>
              /\ DOMAIN results = {1, 2}
              /\ results[1] = [pscore |-> [coef |-> <<7, 6>>, rad |-> 1],
                               maps_played |-> 2, total_maps |-> 2]
              /\ results[2] = [pscore |-> [coef |-> <<5, 6>>, rad |-> 1],
                               maps_played |-> 2, total_maps |-> 2]

\* C5 witness: the fixture has been calculated, and both players have a result.
C5_Witness == phase = "calculated" /\ md = FixtureMatch /\ DOMAIN results = {1, 2}

\* Every player of the match has exactly one entry on every game, and all entries of a
\* game carry the same score.
RefIdenticalScores(m) ==
    /\ RefPlayers(m) # {}
    /\ \A g \in RefGames(m) :
          /\ \A u \in RefPlayers(m) :
                Cardinality({i \in 1..Len(m[g].scores) : m[g].scores[i].user_id = u}) = 1
          /\ \A i, j \in 1..Len(m[g].scores) : m[g].scores[i].score = m[g].scores[j].score

\* C6: when every player has the identical score on every map (one entry per player
\* on every game, all entries of a game equal), all p-scores of the result are equal
\* to each other and each equals sqrt(n / N), n the result's maps played and N the
\* mean number of entries per player.
C6_IdenticalScores ==
    (phase = "calculated" /\ RefIdenticalScores(md)) =>
        \A u, v \in DOMAIN results :
            /\ results[u].pscore = results[v].pscore
            /\ results[u].pscore.coef[1] > 0
            /\ SignedSquare(results[u].pscore)
                  = RatDiv(RatInt(results[u].maps_played), RefMeanMaps(md))

\* C6 witness: two players with identical scores on two maps, one of them a map of
\* zero scores, so that sqrt(n / N) = sqrt(1 / 2) is not 1.
C6_Witness ==
    /\ phase = "calculated"
    /\ RefIdenticalScores(md)
    /\ DOMAIN results = {1, 2}
    /\ results[1].pscore = [coef |-> <<1, 2>>, rad |-> 2]

-----------------------------------------------------------------------------
(* SpecBoost: the rule evaluator applied to the players of a bounded set   *)
(* of matches, after the match's p-scores have been calculated             *)

BoostMaxEvents == 3
NumBoosters == 12

\* Booster ids 1..12 and the unknown ids 0 and 13.
BoosterIds == 0..(NumBoosters + 1)

\* The players the evaluator is called for: 1 (team red) and 2 (team blue) play,
\* player 3 never does.  Players 4 and 5 appear in one game only.
BoostUsers == {1, 2, 3}

TB == <<"T", "B">>
Hard == <<"H", "a", "r", "d">>

BoostEvents ==
    {GameEvent(TB,   <<Entry(1, 900000, 1000, {}, "S", "red"),
                       Entry(2, 100000, 727, {"DT"}, "B", "blue")>>),
     GameEvent(Hard, <<Entry(1, 50000, 300, {"HD"}, "A", "red"),
                       Entry(2, 100000, 300, {"NC"}, "A", "blue")>>),
     GameEvent(Hard, <<Entry(1, 900001, 500, {}, "SS", "red")>>),
     GameEvent(Hard, <<Entry(2, 72750, 999, {"DT"}, "S", "blue")>>),
     GameEvent(Hard, <<Entry(1, 100000, 500, {}, "SH", "red"),
                       Entry(2, 100000, 500, {}, "S", "blue")>>),
     GameEvent(Hard, <<Entry(1, 900000, 500, {}, "S", "red"),
                       Entry(2, 900000, 500, {}, "S", "blue"),
                       Entry(4, 100000, 500, {}, "A", "red"),
                       Entry(5, 100000, 500, {}, "A", "blue")>>),
     GameEvent(Hard, <<>>),
     OtherEvent}

BoostMatches == UNION {[1..n -> BoostEvents] : n \in 0..BoostMaxEvents}

\* player_data = match_player_details.get(player_user_id, {}), and the profile built
\* for a player who did not play in the match.
PlayerDataFor(match_player_details, player_user_id) ==
    Get(match_player_details, player_user_id,
        [user_id |-> player_user_id, maps_played |-> 0, scores |-> <<>>, team |-> ""])

\* {uid: pscore for uid, (pscore, _, _) in match_pscores.items()}
PScoresOf(match_pscores) == [uid \in DOMAIN match_pscores |-> match_pscores[uid].pscore]

InitBoost ==
    /\ md \in BoostMatches
    /\ phase = "fetched"
    /\ results = EmptyDict
    /\ details = EmptyDict
    /\ call = NoCall
    /\ outcome = NoOutcome
    /\ source = NoSource
    /\ IdleMain

\* activated, points = check_booster_activation(booster_id, player_data, match_data, pscores)
Evaluate(booster_id, player_user_id) ==
    /\ phase = "calculated"
    /\ call' = [booster_id |-> booster_id, user_id |-> player_user_id]
    /\ outcome' = check_booster_activation(booster_id,
                                           PlayerDataFor(details, player_user_id),
                                           md, PScoresOf(results))
    /\ phase' = "evaluated"
    /\ UNCHANGED <<md, results, details, source, mainVars>>

NextBoost ==
    \/ Calculate
    \/ \E b \in BoosterIds, u \in BoostUsers : Evaluate(b, u)

SpecBoost == InitBoost /\ [][NextBoost]_vars

-----------------------------------------------------------------------------
(* SpecFetch: a match is fetched page by page, its p-scores are calculated *)
(* and booster 8 is evaluated for its players                              *)

FetchMaxOlder == 2
FetchMaxNewer == 3

\* A map on which player 1 gets the given grade, and fillers without a game (players
\* joining and leaving).
FetchGrades == {"S", "A"}
GradeGame(rank) ==
    GameEvent(Hard, <<Entry(1, 100000, 500, {}, rank, "red"),
                      Entry(2, 100000, 500, {}, "A", "blue")>>)
GradeGames(ranks) == [i \in 1..Len(ranks) |-> GradeGame(ranks[i])]
Fillers(k) == [i \in 1..k |-> OtherEvent]
GradeLists(max) == UNION {[1..n -> FetchGrades] : n \in 0..max}

\* Matches without a map that put the paging loop to work: exactly one and two full
\* pages (the next page is empty, or fails), sources that repeat events, and a
\* match longer than MaxPages pages.
FetchPagingSources ==
    {Source(Fillers(n * PageLimit), order, fail_at) :
        n \in 1..2, order \in {"asc", "desc"}, fail_at \in {0, 3}}
    \cup {Source(Fillers(n), order, 0) :
            n \in {PageLimit, PageLimit + 50, 2 * PageLimit}, order \in {"overlap", "same"}}
    \cup {Source(Fillers(MaxPages * PageLimit + 1), order, 0) : order \in {"asc", "desc"}}

\* Short matches (one page), and long ones: some older maps, then fillers and the
\* newer maps, which make up the latest PageLimit events.  Pages list their events
\* oldest first ("asc", as the osu! API does) or newest first; a request may fail.
FetchSources ==
    {Source(GradeGames(newer), order, fail_at) :
        newer \in GradeLists(FetchMaxNewer), order \in {"asc", "desc"}, fail_at \in 0..2}
    \cup
    {Source(GradeGames(older) \o Fillers(PageLimit - Len(newer)) \o GradeGames(newer),
            order, fail_at) :
        older \in GradeLists(FetchMaxOlder), newer \in GradeLists(FetchMaxNewer),
        order \in {"asc", "desc"}, fail_at \in 0..2}
    \cup FetchPagingSources


InitFetch ==
    /\ source \in FetchSources
    /\ md = <<>>
    /\ phase = "source"
    /\ results = EmptyDict
    /\ details = EmptyDict
    /\ call = NoCall
    /\ outcome = NoOutcome
    /\ IdleMain

\* match_data = fetch_match(match_id, token)
Fetch ==
    /\ phase = "source"
    /\ FetchFrom(source).ok
    /\ md' = FetchFrom(source).events
    /\ phase' = "fetched"
    /\ UNCHANGED <<results, details, call, outcome, source, mainVars>>

\* fetch_match raises: the first request is answered with an error status.
FetchRaises ==
    /\ phase = "source"
    /\ ~FetchFrom(source).ok
    /\ phase' = "failed"
    /\ UNCHANGED <<md, results, details, call, outcome, source, mainVars>>

NextFetch ==
    \/ Fetch
    \/ FetchRaises
    \/ Calculate
    \/ \E u \in BoostUsers : Evaluate(8, u)

SpecFetch == InitFetch /\ [][NextFetch]_vars

-----------------------------------------------------------------------------
(* update_player_pscores                                                   *)

\* SQL "profile_url LIKE '%/users/<user_id>%'" against the url .../users/<row_uid>:
\* the pattern matches when the digits of user_id are the first digits of row_uid.
RECURSIVE LikeUsersPattern(_, _)
LikeUsersPattern(row_uid, user_id) ==
    IF row_uid = user_id THEN TRUE
    ELSE IF row_uid < 10 THEN FALSE
    ELSE LikeUsersPattern(row_uid \div 10, user_id)

\* The id of the first row the query returns, 0 for no row (None).
get_user_id_by_profile_url(table, user_id) ==
    IF \E id \in 1..Len(table) : LikeUsersPattern(table[id].uid, user_id)
    THEN CHOOSE id \in 1..Len(table) :
            /\ LikeUsersPattern(table[id].uid, user_id)
            /\ \A j \in 1..(id - 1) : ~LikeUsersPattern(table[j].uid, user_id)
    ELSE 0

NewPlayerData == [pscores |-> <<>>, matches |-> 0, total_maps |-> 0]

\* "for user_id, (pscore, maps_played, total_maps) in match_results.items()" over the
\* user ids not yet visited.
RECURSIVE AggregateMatch(_, _, _, _)
AggregateMatch(player_data, table, match_results, todo) ==
    IF todo = {} THEN player_data
    ELSE LET user_id == CHOOSE u \in todo : \A v \in todo : u <= v
             db_id == get_user_id_by_profile_url(table, user_id)
             data == Get(player_data, db_id, NewPlayerData)
             r == match_results[user_id]
         IN  IF db_id = 0 THEN AggregateMatch(player_data, table, match_results, todo \ {user_id})
             ELSE AggregateMatch(
                    Put(player_data, db_id,
                        [pscores |-> Append(data.pscores, <<r.pscore, r.maps_played>>),
                         matches |-> data.matches + 1,
                         total_maps |-> data.total_maps + r.maps_played]),
                    table, match_results, todo \ {user_id})

\* "for match_results in match_pscores", from match k on.
RECURSIVE AggregateBatch(_, _, _, _)
AggregateBatch(player_data, table, match_pscores, k) ==
    IF k > Len(match_pscores) THEN player_data
    ELSE AggregateBatch(
            AggregateMatch(player_data, table, match_pscores[k], DOMAIN match_pscores[k]),
            table, match_pscores, k + 1)

\* sum(score * weight for score, weight in pscores), a left fold from 0.
RECURSIVE WeightedSum(_, _, _)
WeightedSum(acc, pscores, i) ==
    IF i > Len(pscores) THEN acc
    ELSE WeightedSum(RealAdd(acc, RealScale(RatInt(pscores[i][2]), RealOf(pscores[i][1]))),
                     pscores, i + 1)

RECURSIVE TotalWeight(_)
TotalWeight(pscores) ==
    IF pscores = <<>> THEN 0 ELSE Head(pscores)[2] + TotalWeight(Tail(pscores))

WeightedPScore(pscores) ==
    RealScale(Rat(1, TotalWeight(pscores)), WeightedSum({}, pscores, 1))

\* The table after the UPDATE of every aggregated player; a player without p-scores or
\* with total weight 0 is skipped.
update_player_pscores(table, match_pscores) ==
    LET player_data == AggregateBatch(EmptyDict, table, match_pscores, 1)
    IN  [id \in 1..Len(table) |->
            IF /\ id \in DOMAIN player_data
               /\ player_data[id].pscores # <<>>
               /\ TotalWeight(player_data[id].pscores) # 0
            THEN [table[id] EXCEPT !.p_score = WeightedPScore(player_data[id].pscores),
                                   !.matches_played = player_data[id].matches,
                                   !.total_maps_played = player_data[id].total_maps]
            ELSE table[id]]

\* The rows the loop "for db_id, data in player_data.items()" executes an UPDATE for.
UpdatedPlayers(table, match_pscores) ==
    LET player_data == AggregateBatch(EmptyDict, table, match_pscores, 1)
    IN  {id \in 1..Len(table) :
            /\ id \in DOMAIN player_data
            /\ player_data[id].pscores # <<>>
            /\ TotalWeight(player_data[id].pscores) # 0}

-----------------------------------------------------------------------------
(* update_user_scores_with_boosters                                        *)

\* int(profile_url.split("/users/")[1].split("/")[0]) of the row with this id,
\* 0 when there is no such row.
PlayerUserId(table, player_db_id) ==
    IF player_db_id \in 1..Len(table) THEN table[player_db_id].uid ELSE 0

\* Mutant of PairPoints: the booster is evaluated for a player who did not play.
PairPoints_NoSkip(table, boosters, player_db_id, match_data, match_pscores, match_player_details) ==
    LET booster_id == Get(boosters, player_db_id, 0)
        player_user_id == PlayerUserId(table, player_db_id)
    IN  IF booster_id = 0 THEN 0
        ELSE IF player_user_id = 0 THEN 0
        ELSE check_booster_activation(booster_id,
                                      PlayerDataFor(match_player_details, player_user_id),
                                      match_data, PScoresOf(match_pscores)).points

\* Mutant of PairPoints: the booster is evaluated before the p-scores of the match exist.
PairPoints_BeforePScores(table, boosters, player_db_id, match_data, match_pscores, match_player_details) ==
    LET booster_id == Get(boosters, player_db_id, 0)
        player_user_id == PlayerUserId(table, player_db_id)
        player_data == PlayerDataFor(match_player_details, player_user_id)
    IN  IF booster_id = 0 THEN 0
        ELSE IF player_user_id = 0 THEN 0
        ELSE IF player_data.maps_played = 0 THEN 0
        ELSE check_booster_activation(booster_id, player_data, match_data, EmptyDict).points

\* The points one rostered player adds for one match: none without a booster, without a
\* roster row, or when the player has no map played in the match.
PairPoints(table, boosters, player_db_id, match_data, match_pscores, match_player_details) ==
    LET booster_id == Get(boosters, player_db_id, 0)
        player_user_id == PlayerUserId(table, player_db_id)
        player_data == PlayerDataFor(match_player_details, player_user_id)
    IN  IF booster_id = 0 THEN 0
        ELSE IF player_user_id = 0 THEN 0
        ELSE IF player_data.maps_played = 0 THEN 0
        ELSE check_booster_activation(booster_id, player_data, match_data,
                                      PScoresOf(match_pscores)).points

\* "for player_db_id in player_ids", from roster position j on.
RECURSIVE MatchPoints(_, _, _, _, _, _, _)
MatchPoints(table, boosters, player_ids, j, match_data, match_pscores, match_player_details) ==
    IF j > Len(player_ids) THEN 0
    ELSE PairPoints(table, boosters, player_ids[j], match_data, match_pscores,
                    match_player_details)
         + MatchPoints(table, boosters, player_ids, j + 1, match_data, match_pscores,
                       match_player_details)

Min3(a, b, c) == IF a <= b /\ a <= c THEN a ELSE IF b <= c THEN b ELSE c

\* total_booster_points of one team: the loop over zip(match_data_list,
\* match_pscores_list, match_details_list), from position k on.
RECURSIVE TeamBoosterPoints(_, _, _, _, _, _)
TeamBoosterPoints(table, team, k, match_data_list, match_pscores_list, match_details_list) ==
    IF k > Min3(Len(match_data_list), Len(match_pscores_list), Len(match_details_list)) THEN 0
    ELSE MatchPoints(table, team.boosters, team.player_ids, 1, match_data_list[k][2],
                     match_pscores_list[k], match_details_list[k])
         + TeamBoosterPoints(table, team, k + 1, match_data_list, match_pscores_list,
                             match_details_list)

\* Mutant of NewScore: the booster points written as the score.
NewScore_Absolute(current_score, total_booster_points) == total_booster_points

\* new_score = current_score + total_booster_points
NewScore(current_score, total_booster_points) == current_score + total_booster_points

\* The users table after the teams from row t on have been processed: a team without
\* player ids is skipped; the UPDATE changes nothing when the owner has no users row.
RECURSIVE UpdateTeams(_, _, _, _, _, _, _)
UpdateTeams(users, teams, t, table, match_data_list, match_pscores_list, match_details_list) ==
    IF t > Len(teams) THEN users
    ELSE LET team == teams[t]
             total_booster_points ==
                 TeamBoosterPoints(table, team, 1, match_data_list, match_pscores_list,
                                   match_details_list)
             current_score == Get(users, team.user_osu_id, 0)
             new_score == NewScore(current_score, total_booster_points)
         IN  IF team.player_ids = <<>>
             THEN UpdateTeams(users, teams, t + 1, table, match_data_list,
                              match_pscores_list, match_details_list)
             ELSE UpdateTeams([o \in DOMAIN users |->
                                  IF o = team.user_osu_id THEN new_score ELSE users[o]],
                              teams, t + 1, table, match_data_list, match_pscores_list,
                              match_details_list)

\* teams = SELECT ... FROM teams WHERE tournament = 'owc2025', then the loop over them.
update_user_scores_with_boosters(users, teams_table, table, match_data_list, match_pscores_list, match_details_list) ==
    UpdateTeams(users, SelectSeq(teams_table, LAMBDA team : team.tournament = "owc2025"), 1,
                table, match_data_list, match_pscores_list, match_details_list)

-----------------------------------------------------------------------------
(* update_scores.py: calculate_score_change and update_user_score          *)

\* int(round(x)): the nearest integer, a tie going to the even neighbour.
RoundHalfEven(q) ==
    LET floor == q[1] \div q[2]
        twice == 2 * (q[1] - floor * q[2])
    IN  IF twice < q[2] THEN floor
        ELSE IF twice > q[2] THEN floor + 1
        ELSE IF floor % 2 = 0 THEN floor ELSE floor + 1

\* Mutant of Capped: the score change is not capped.
Capped_Not(score_change) == score_change

\* max(-50, min(50, score_change))
Capped(score_change) ==
    LET upper == IF RatLess(score_change, RatInt(50)) THEN score_change ELSE RatInt(50)
    IN  IF RatLess(RatInt(-50), upper) THEN upper ELSE RatInt(-50)

calculate_score_change(pscores) ==
    IF pscores = <<>> THEN 0
    ELSE LET avg_pscore == RatDiv(SumRats(pscores), RatInt(Len(pscores)))
             score_change == RatMul(RatAdd(avg_pscore, RatInt(-1)), RatInt(50))
         IN  RoundHalfEven(Capped(score_change))

\* The users table after update_user_score: nothing is written without a row.
update_user_score(users, user_osu_id, score_delta) ==
    IF user_osu_id \notin DOMAIN users THEN users
    ELSE LET current_score == users[user_osu_id]
             new_score == IF current_score + score_delta < 0 THEN 0
                          ELSE current_score + score_delta
         IN  [o \in DOMAIN users |-> IF o = user_osu_id THEN new_score ELSE users[o]]

-----------------------------------------------------------------------------
(* main.py: save_team                                                      *)

TOTAL_BUDGET == 35000
MAX_TEAM_SIZE == 5
DEFAULT_PLAYER_COST == 7000

\* The body of POST /api/team and the user the access token belongs to (0: no token,
\* or the user data could not be fetched); boosters maps player ids to booster ids
\* (the empty dict also stands for None).
TeamSaveRequest(user_osu_id, player_ids, tournament, boosters) ==
    [user_osu_id |-> user_osu_id, player_ids |-> player_ids, tournament |-> tournament,
     boosters |-> boosters]

\* A row of table teams; player_ids is ",".join(str(pid) ...) kept as the list of its
\* parts, boosters the JSON object {str(k): v}.
Team(user_osu_id, tournament, player_ids, budget_used, boosters) ==
    [user_osu_id |-> user_osu_id, tournament |-> tournament, player_ids |-> player_ids,
     budget_used |-> budget_used, boosters |-> boosters]

\* [str(pid) for pid in player_ids]
StrIds(player_ids) == [i \in 1..Len(player_ids) |-> ToString(player_ids[i])]

\* boosters_json: "{}" (the empty object) without boosters, else {str(k): v}.
BoostersJson(boosters) ==
    [key \in {ToString(k) : k \in DOMAIN boosters} |->
        boosters[CHOOSE k \in DOMAIN boosters : ToString(k) = key]]

\* total_cost after the loop over player_ids from position i on, every id being
\* found by SELECT id, cost FROM "2025owc" WHERE id = ?: the table maps a row id to
\* its cost record (has_cost FALSE for a NULL cost, which counts as
\* DEFAULT_PLAYER_COST).
RECURSIVE TotalCost(_, _, _)
TotalCost(table, player_ids, i) ==
    IF i > Len(player_ids) THEN 0
    ELSE (IF table[player_ids[i]].has_cost THEN table[player_ids[i]].cost
          ELSE DEFAULT_PLAYER_COST)
         + TotalCost(table, player_ids, i + 1)

\* Mutant of OverBudget: the budget is not checked.
OverBudget_Unchecked(total_cost) == FALSE

\* if total_cost > TOTAL_BUDGET
OverBudget(total_cost) == total_cost > TOTAL_BUDGET

\* The position of the team of (user, tournament) in the table, 0 for none
\* (session.exec(statement).first()).
ExistingTeam(teams, user_osu_id, tournament) ==
    IF \E t \in 1..Len(teams) :
          teams[t].user_osu_id = user_osu_id /\ teams[t].tournament = tournament
    THEN CHOOSE t \in 1..Len(teams) :
            /\ teams[t].user_osu_id = user_osu_id /\ teams[t].tournament = tournament
            /\ \A x \in 1..(t - 1) :
                  ~(teams[x].user_osu_id = user_osu_id /\ teams[x].tournament = tournament)
    ELSE 0

\* save_team: the status code of the response and the teams table after it.  The
\* players are read from the table "2025owc" for tournament owc2025 and from a table
\* named after the tournament otherwise, which players.db does not have: the SELECT
\* raises and the request ends with status 500.  models.py declares no boosters
\* field for Team: with has_field FALSE the keyword is dropped from a new row, which
\* gets the column default "{}", and the assignment to an existing row raises
\* before the commit; with has_field TRUE (a model that declares the column of
\* add_boosters_column.py) boosters_json is stored.
save_team(teams, table, request, has_field) ==
    LET player_ids == request.player_ids
        total_cost == TotalCost(table, player_ids, 1)
        existing_team == ExistingTeam(teams, request.user_osu_id, request.tournament)
        boosters_json == BoostersJson(request.boosters)
        row == Team(request.user_osu_id, request.tournament, StrIds(player_ids), total_cost,
                    IF has_field THEN boosters_json ELSE BoostersJson(EmptyDict))
        rejected(status) == [status |-> status, teams |-> teams]
    IN  IF request.user_osu_id = 0 THEN rejected(401)
        ELSE IF Len(player_ids) > MAX_TEAM_SIZE THEN rejected(400)
        ELSE IF request.tournament # "owc2025" /\ player_ids # <<>> THEN rejected(500)
        ELSE IF \E i \in 1..Len(player_ids) : player_ids[i] \notin DOMAIN table
             THEN rejected(400)
        ELSE IF OverBudget(total_cost) THEN rejected(400)
        ELSE IF existing_team # 0 /\ ~has_field THEN rejected(500)
        ELSE IF existing_team # 0
             THEN [status |-> 200,
                   teams |-> [t \in 1..Len(teams) |-> IF t = existing_team THEN row ELSE teams[t]]]
        ELSE [status |-> 200, teams |-> Append(teams, row)]

-----------------------------------------------------------------------------
(* Spec: main() over a batch of match ids                                  *)

MaxBatch == 2

MainEntry(u, s) == Entry(u, s, 500, {}, "A", IF u = 2 THEN "blue" ELSE "red")

\* The match source of each match id (all of them fit on one page).  The players
\* are the osu users 12 and 2 (both in the roster) and 1 (not in it).
\*   1: the two-map fixture played by 12 and 2;   2: 12 plays one map of two;
\*   3: 1 and 12 play one map;   4: the request fails;   5: no game in the events;
\*   6: 1 and 2 play one map.
\* Match 7 needs a second page: 12 and 2 play the first and the last of its
\* PageLimit + 1 events, and the request for the second page fails.
MatchIds == 1..7
MatchSource(match_id) ==
    CASE match_id = 1 ->
            Source(<<GameEvent(Hard, <<MainEntry(12, 100000), MainEntry(2, 50000)>>),
                     OtherEvent,
                     GameEvent(Hard, <<MainEntry(12, 80000), MainEntry(2, 80000)>>)>>,
                   "asc", 0)
      [] match_id = 2 ->
            Source(<<GameEvent(Hard, <<MainEntry(12, 50000), MainEntry(2, 100000)>>),
                     GameEvent(Hard, <<MainEntry(2, 100000)>>)>>,
                   "asc", 0)
      [] match_id = 3 ->
            Source(<<GameEvent(Hard, <<MainEntry(1, 100000), MainEntry(12, 50000)>>)>>,
                   "asc", 0)
      [] match_id = 5 -> Source(<<OtherEvent>>, "asc", 0)
      [] match_id = 6 ->
            Source(<<GameEvent(Hard, <<MainEntry(1, 50000), MainEntry(2, 100000)>>)>>,
                   "asc", 0)
      [] match_id = 7 ->
            Source(<<GameEvent(Hard, <<MainEntry(12, 100000), MainEntry(2, 50000)>>)>>
                   \o Fillers(PageLimit - 1)
                   \o <<GameEvent(Hard, <<MainEntry(12, 50000), MainEntry(2, 100000)>>)>>,
                   "asc", 2)
      [] OTHER -> Source(<<>>, "asc", 1)

fetch_match(match_id) == FetchFrom(MatchSource(match_id))

\* The roster table: row 1 is osu user 12, row 2 user 2, row 3 user 3 (who never
\* plays).  Fresh rows carry the column defaults, stale rows an earlier run's values.
PlayerRow(uid, p_score, matches_played, total_maps_played) ==
    [uid |-> uid, p_score |-> p_score, matches_played |-> matches_played,
     total_maps_played |-> total_maps_played]
FreshPlayers == <<PlayerRow(12, {}, 0, 0), PlayerRow(2, {}, 0, 0), PlayerRow(3, {}, 0, 0)>>
StalePlayers ==
    <<PlayerRow(12, RealOf(SurdOfRat(<<3, 2>>)), 4, 9),
      PlayerRow(2, RealOf(SurdOfRat(<<1, 2>>)), 1, 3),
      PlayerRow(3, RealOf(SurdOfRat(<<1, 1>>)), 2, 2)>>

\* The score of owner 100 before the run.
StartScores == {0, 10}

TeamRow(user_osu_id, tournament, player_ids, boosters) ==
    [user_osu_id |-> user_osu_id, tournament |-> tournament,
     player_ids |-> player_ids, boosters |-> boosters]

\* The rosters owner 100 may have saved: player ids and the booster of each
\* (boosters maps a player id to a booster id).
TeamChoices ==
    {TeamRow(100, "owc2025", <<1, 2, 3>>, EmptyDict),
     TeamRow(100, "owc2025", <<1, 2, 3>>, Put(Put(EmptyDict, 1, 8), 2, 9)),
     TeamRow(100, "owc2025", <<1, 2, 3>>, Put(Put(Put(EmptyDict, 1, 11), 2, 11), 3, 5)),
     TeamRow(100, "owc2025", <<1, 2, 3>>, Put(Put(Put(EmptyDict, 1, 3), 2, 7), 3, 0)),
     TeamRow(100, "owc2025", <<2, 2, 9>>, Put(Put(EmptyDict, 2, 11), 9, 8))}

\* The teams table (with the boosters column of add_boosters_column.py): the team of
\* owner 100, a team without players, a team whose owner has no users row, and a
\* team of another tournament.
TeamsWith(team) ==
    <<team,
      TeamRow(200, "owc2025", <<>>, Put(EmptyDict, 1, 8)),
      TeamRow(300, "owc2025", <<1>>, Put(EmptyDict, 1, 8)),
      TeamRow(100, "owc2024", <<1>>, Put(EmptyDict, 1, 8))>>

IdleEval ==
    /\ md = <<>>
    /\ phase = "idle"
    /\ results = EmptyDict
    /\ details = EmptyDict
    /\ call = NoCall
    /\ outcome = NoOutcome
    /\ source = NoSource

Init ==
    /\ IdleEval
    /\ players_db \in {FreshPlayers, StalePlayers}
    /\ users_db \in {[o \in {100, 200} |-> IF o = 100 THEN s ELSE 7] : s \in StartScores}
    /\ teams_db \in {TeamsWith(team) : team \in TeamChoices}
    /\ match_ids \in UNION {[1..n -> MatchIds] : n \in 0..MaxBatch}
    /\ pc = "start"
    /\ idx = 0
    /\ all_match_pscores = <<>>
    /\ all_match_data = <<>>
    /\ all_match_details = <<>>
    /\ exit_code = -1
    /\ start = [players |-> players_db, users |-> users_db]
    /\ write_error = NoWriteError
    /\ scoring = NoScoring
    /\ saving = NoSaving

\* if not match_ids: log.error(...); return 1
NoMatchIds ==
    /\ pc = "start"
    /\ match_ids = <<>>
    /\ pc' = "done"
    /\ exit_code' = 1
    /\ UNCHANGED <<evalVars, scoring, saving, players_db, users_db, teams_db, match_ids, idx,
                   all_match_pscores, all_match_data, all_match_details, start, write_error>>

\* The database is opened, the token fetched, the three lists created.
Begin ==
    /\ pc = "start"
    /\ match_ids # <<>>
    /\ pc' = "loop"
    /\ idx' = 1
    /\ UNCHANGED <<evalVars, scoring, saving, players_db, users_db, teams_db, match_ids,
                   all_match_pscores, all_match_data, all_match_details, exit_code, start, write_error>>

\* One iteration of "for match_id in match_ids" that raises: the error is logged and
\* the loop continues.
MatchFails ==
    /\ pc = "loop"
    /\ idx <= Len(match_ids)
    /\ ~fetch_match(match_ids[idx]).ok
    /\ idx' = idx + 1
    /\ UNCHANGED <<evalVars, scoring, saving, players_db, users_db, teams_db, match_ids, pc,
                   all_match_pscores, all_match_data, all_match_details, exit_code, start, write_error>>

\* One iteration with p-scores: the match is appended to the three lists.
MatchAppended ==
    /\ pc = "loop"
    /\ idx <= Len(match_ids)
    /\ fetch_match(match_ids[idx]).ok
    /\ LET match_data == fetch_match(match_ids[idx]).events
           r == calculate_match_pscore_with_details(match_data)
       IN  /\ DOMAIN r.results # {}
           /\ all_match_pscores' = Append(all_match_pscores, r.results)
           /\ all_match_data' = Append(all_match_data, <<match_ids[idx], match_data>>)
           /\ all_match_details' = Append(all_match_details, r.details)
    /\ idx' = idx + 1
    /\ UNCHANGED <<evalVars, scoring, saving, players_db, users_db, teams_db, match_ids, pc, exit_code, start, write_error>>

\* Mutant of MatchWithoutPScores: the match is appended to all_match_data although it
\* has no p-scores.
MatchWithoutPScores_DataAppended ==
    /\ pc = "loop"
    /\ idx <= Len(match_ids)
    /\ fetch_match(match_ids[idx]).ok
    /\ DOMAIN calculate_match_pscore_with_details(fetch_match(match_ids[idx]).events).results = {}
    /\ all_match_data' = Append(all_match_data,
                                <<match_ids[idx], fetch_match(match_ids[idx]).events>>)
    /\ idx' = idx + 1
    /\ UNCHANGED <<evalVars, scoring, saving, players_db, users_db, teams_db, match_ids, pc,
                   all_match_pscores, all_match_details, exit_code, start, write_error>>

\* One iteration without p-scores: a warning, nothing appended.
MatchWithoutPScores ==
    /\ pc = "loop"
    /\ idx <= Len(match_ids)
    /\ fetch_match(match_ids[idx]).ok
    /\ DOMAIN calculate_match_pscore_with_details(fetch_match(match_ids[idx]).events).results = {}
    /\ idx' = idx + 1
    /\ UNCHANGED <<evalVars, scoring, saving, players_db, users_db, teams_db, match_ids, pc,
                   all_match_pscores, all_match_data, all_match_details, exit_code, start, write_error>>

\* if all_match_pscores: update_player_pscores(conn, all_match_pscores)
UpdatePlayers ==
    /\ pc = "loop"
    /\ idx > Len(match_ids)
    /\ all_match_pscores # <<>>
    /\ players_db' = update_player_pscores(players_db, all_match_pscores)
    /\ pc' = "users"
    /\ UNCHANGED <<evalVars, scoring, saving, users_db, teams_db, match_ids, idx,
                   all_match_pscores, all_match_data, all_match_details, exit_code, start, write_error>>

\* update_player_pscores when the UPDATE of one player's row raises: the exception
\* leaves update_player_pscores before conn.commit() and leaves main(), which does
\* not catch it; the process ends with exit status 1 and the connection's open
\* transaction, the UPDATEs of this call, is never committed.
UpdatePlayersFails ==
    /\ pc = "loop"
    /\ idx > Len(match_ids)
    /\ all_match_pscores # <<>>
    /\ \E db_id \in UpdatedPlayers(players_db, all_match_pscores) :
            write_error' = [table |-> "players", id |-> db_id]
    /\ pc' = "done"
    /\ exit_code' = 1
    /\ UNCHANGED <<evalVars, scoring, saving, players_db, users_db, teams_db, match_ids, idx,
                   all_match_pscores, all_match_data, all_match_details, start>>

\* update_user_scores_with_boosters(all_match_data, all_match_pscores,
\* all_match_details); conn.close(); return 0
UpdateUsers ==
    /\ pc = "users"
    /\ users_db' = update_user_scores_with_boosters(users_db, teams_db, players_db,
                        all_match_data, all_match_pscores, all_match_details)
    /\ pc' = "done"
    /\ exit_code' = 0
    /\ UNCHANGED <<evalVars, scoring, saving, players_db, teams_db, match_ids, idx,
                   all_match_pscores, all_match_data, all_match_details, start, write_error>>

\* update_user_scores_with_boosters when the UPDATE for the owner of one team raises:
\* "except Exception" logs the error and calls conn.rollback(), which undoes every
\* UPDATE of the call; main() goes on to conn.close() and return 0.
UpdateUsersFails ==
    /\ pc = "users"
    /\ \E t \in 1..Len(teams_db) :
            /\ teams_db[t].tournament = "owc2025"
            /\ teams_db[t].player_ids # <<>>
            /\ write_error' = [table |-> "users", id |-> teams_db[t].user_osu_id]
    /\ pc' = "done"
    /\ exit_code' = 0
    /\ UNCHANGED <<evalVars, scoring, saving, players_db, users_db, teams_db, match_ids, idx,
                   all_match_pscores, all_match_data, all_match_details, start>>

\* else: log.warning("No p_scores calculated from any matches"); return 0
NothingCalculated ==
    /\ pc = "loop"
    /\ idx > Len(match_ids)
    /\ all_match_pscores = <<>>
    /\ pc' = "done"
    /\ exit_code' = 0
    /\ UNCHANGED <<evalVars, scoring, saving, players_db, users_db, teams_db, match_ids, idx,
                   all_match_pscores, all_match_data, all_match_details, start, write_error>>

Next ==
    \/ NoMatchIds
    \/ Begin
    \/ MatchFails
    \/ MatchAppended
    \/ MatchWithoutPScores
    \/ UpdatePlayers
    \/ UpdatePlayersFails
    \/ UpdateUsers
    \/ UpdateUsersFails
    \/ NothingCalculated

Spec == Init /\ [][Next]_vars

-----------------------------------------------------------------------------
(* SpecScores: update_scores.py turns the p-scores of a team into a score   *)
(* change and stores it for a user                                         *)

ScoresMaxTeam == 2

\* The p_score values read from the roster table, and the teams' p-score lists.
ScorePScores ==
    {Rat(0, 1), Rat(1, 2), Rat(99, 100), Rat(1, 1), Rat(101, 100), Rat(103, 100),
     Rat(2, 1), Rat(3, 1)}
ScoreLists == UNION {[1..n -> ScorePScores] : n \in 0..ScoresMaxTeam}

\* The users table: the score of user 100 is 0, 10 or 60; user 300 has no row.
ScoreUsers == {[o \in {100, 200} |-> IF o = 100 THEN s ELSE 7] : s \in {0, 10, 60}}
ScoreUserIds == {100, 300}

InitScores ==
    /\ md = <<>>
    /\ phase = "pscores"
    /\ results = EmptyDict
    /\ details = EmptyDict
    /\ call = NoCall
    /\ outcome = NoOutcome
    /\ source = NoSource
    /\ players_db = <<>>
    /\ users_db \in ScoreUsers
    /\ teams_db = <<>>
    /\ match_ids = <<>>
    /\ pc = "idle"
    /\ idx = 0
    /\ all_match_pscores = <<>>
    /\ all_match_data = <<>>
    /\ all_match_details = <<>>
    /\ exit_code = -1
    /\ start = [players |-> <<>>, users |-> users_db]
    /\ write_error = NoWriteError
    /\ scoring \in {[pscores |-> l, score_change |-> 0, user_osu_id |-> 0] : l \in ScoreLists}
    /\ saving = NoSaving

\* score_change = calculate_score_change(pscores)
ScoreChange ==
    /\ phase = "pscores"
    /\ scoring' = [scoring EXCEPT !.score_change = calculate_score_change(scoring.pscores)]
    /\ phase' = "changed"
    /\ UNCHANGED <<md, results, details, call, outcome, source, players_db, users_db,
                   teams_db, match_ids, pc, idx, all_match_pscores, all_match_data,
                   all_match_details, exit_code, start, write_error, saving>>

\* update_user_score(users_conn, user_osu_id, score_change)
UpdateUserScore ==
    /\ phase = "changed"
    /\ \E user_osu_id \in ScoreUserIds :
          /\ users_db' = update_user_score(users_db, user_osu_id, scoring.score_change)
          /\ scoring' = [scoring EXCEPT !.user_osu_id = user_osu_id]
    /\ phase' = "stored"
    /\ UNCHANGED <<md, results, details, call, outcome, source, players_db,
                   teams_db, match_ids, pc, idx, all_match_pscores, all_match_data,
                   all_match_details, exit_code, start, write_error, saving>>

NextScores == ScoreChange \/ UpdateUserScore

SpecScores == InitScores /\ [][NextScores]_vars

-----------------------------------------------------------------------------
(* SpecTeam: a sequence of save_team requests                              *)

MaxRequests == 2

\* The roster table: the cost of rows 1 and 2, the NULL cost of row 3; no row 9.
TeamPlayers ==
    [pid \in {1, 2, 3} |->
        IF pid = 1 THEN [cost |-> 20000, has_cost |-> TRUE]
        ELSE IF pid = 2 THEN [cost |-> 10000, has_cost |-> TRUE]
        ELSE [cost |-> 0, has_cost |-> FALSE]]

\* The requests.  The player lists user 100 sends are within the budget, at the
\* budget, over it, with an unknown id, with a player twice, and with more than
\* MAX_TEAM_SIZE players; the user puts booster 8 on the first player of the list.
TeamRequests ==
    LET lists == {<<>>, <<1>>, <<2>>, <<1, 2>>, <<2, 2>>, <<1, 2, 3>>, <<9>>, <<1, 9>>,
                  <<3, 3, 3, 3, 3>>, <<2, 3, 3, 3, 3>>, <<3, 3, 3, 3, 3, 3>>}
    IN  {TeamSaveRequest(100, l, "owc2025",
                         IF l = <<>> THEN EmptyDict ELSE Put(EmptyDict, l[1], 8)) : l \in lists}
        \cup {TeamSaveRequest(200, l, "owc2025", EmptyDict) : l \in {<<1>>, <<1, 2, 3>>}}
        \cup {TeamSaveRequest(100, l, "owc2024", EmptyDict) : l \in {<<>>, <<1>>}}
        \cup {TeamSaveRequest(0, <<1>>, "owc2025", EmptyDict)}

InitTeam ==
    /\ md = <<>>
    /\ phase = "idle"
    /\ results = EmptyDict
    /\ details = EmptyDict
    /\ call = NoCall
    /\ outcome = NoOutcome
    /\ source = NoSource
    /\ players_db = TeamPlayers
    /\ users_db = <<>>
    /\ teams_db = <<>>
    /\ match_ids = <<>>
    /\ pc = "idle"
    /\ idx = 0
    /\ all_match_pscores = <<>>
    /\ all_match_data = <<>>
    /\ all_match_details = <<>>
    /\ exit_code = -1
    /\ start = <<>>
    /\ write_error = NoWriteError
    /\ scoring = NoScoring
    /\ saving = NoSaving

\* POST /api/team; idx counts the requests.
SaveTeam ==
    /\ idx < MaxRequests
    /\ \E request \in TeamRequests, has_field \in BOOLEAN :
          LET response == save_team(teams_db, players_db, request, has_field)
          IN  /\ teams_db' = response.teams
              /\ saving' = [request |-> request, status |-> response.status,
                            before |-> teams_db]
    /\ idx' = idx + 1
    /\ UNCHANGED <<evalVars, players_db, users_db, match_ids, pc, all_match_pscores,
                   all_match_data, all_match_details, exit_code, start, write_error,
                   scoring>>

NextTeam == SaveTeam

SpecTeam == InitTeam /\ [][NextTeam]_vars

-----------------------------------------------------------------------------
(* Claims about check_booster_activation                                   *)

\* The rule table: booster id -> <<points when activated, points when not>>.
RuleTable ==
    <<  <<5, 0>>, <<5, -5>>, <<5, -2>>, <<7, 0>>, <<5, -5>>, <<6, -2>>,
        <<5, -5>>, <<10, -10>>, <<5, -5>>, <<3, 0>>, <<5, -5>>, <<5, -5>>  >>

\* C4 (as claimed): for a profile with maps_played = 0, booster 1 returns (true, +5);
\* booster 11 returns (false, -5) when the match has at least one game and does not
\* return (false, -5) when it has none.
C4_NoParticipation ==
    (phase = "evaluated" /\ PlayerDataFor(details, call.user_id).maps_played = 0) =>
        /\ call.booster_id = 1 => outcome = Result(TRUE, 5)
        /\ (call.booster_id = 11 /\ Len(Games(md)) # 0) => outcome = Result(FALSE, -5)
        /\ (call.booster_id = 11 /\ Len(Games(md)) = 0) => outcome # Result(FALSE, -5)

\* C10: every call returns (true, on) or (false, off) with (on, off) of the rule
\* table for ids 1..12, and (false, 0) for any other id.
C10_RuleTable ==
    phase = "evaluated" =>
        IF call.booster_id \in 1..NumBoosters
        THEN outcome \in {Result(TRUE, RuleTable[call.booster_id][1]),
                          Result(FALSE, RuleTable[call.booster_id][2])}
        ELSE outcome = Result(FALSE, 0)

\* C10 witness: booster 8 has been evaluated on three S-graded maps in a row (+10).
C10_Witness ==
    /\ phase = "evaluated"
    /\ call.booster_id = 8
    /\ outcome = Result(TRUE, 10)

-----------------------------------------------------------------------------
(* Claims about the ledger writers                                         *)

RECURSIVE SumIntFun(_)
SumIntFun(f) ==
    IF DOMAIN f = {} THEN 0
    ELSE LET k == CHOOSE x \in DOMAIN f : TRUE
         IN  f[k] + SumIntFun([x \in (DOMAIN f) \ {k} |-> f[x]])

RECURSIVE SumRealFun(_)
SumRealFun(f) ==
    IF DOMAIN f = {} THEN {}
    ELSE LET k == CHOOSE x \in DOMAIN f : TRUE
         IN  RealAdd(f[k], SumRealFun([x \in (DOMAIN f) \ {k} |-> f[x]]))

\* update_player_pscores has run / update_user_scores_with_boosters has run.
PlayersWritten ==
    pc \in {"users", "done"} /\ all_match_pscores # <<>> /\ write_error.table # "players"
UsersWritten ==
    pc = "done" /\ exit_code = 0 /\ all_match_pscores # <<>> /\ write_error = NoWriteError

\* The booster assigned to the player at roster position j (0 for none), the osu id
\* of that player (0 without a roster row) and the maps an osu user played in match k.
RefBooster(team, j) ==
    IF team.player_ids[j] \in DOMAIN team.boosters
    THEN team.boosters[team.player_ids[j]] ELSE 0
RefUid(team, j) ==
    IF team.player_ids[j] \in 1..Len(players_db) THEN players_db[team.player_ids[j]].uid ELSE 0
RefMapsIn(uid, k) ==
    IF uid \in DOMAIN all_match_details[k] THEN all_match_details[k][uid].maps_played ELSE 0

\* The pairs (roster position, match of the batch) with a booster assigned and at least
\* one map played, and the points check_booster_activation gives for such a pair.
RefQualifying(team) ==
    {pair \in (1..Len(team.player_ids)) \X (1..Len(all_match_data)) :
        /\ RefBooster(team, pair[1]) # 0
        /\ RefMapsIn(RefUid(team, pair[1]), pair[2]) >= 1}
RefPoints(team, pair) ==
    check_booster_activation(RefBooster(team, pair[1]),
                             all_match_details[pair[2]][RefUid(team, pair[1])],
                             all_match_data[pair[2]][2],
                             PScoresOf(all_match_pscores[pair[2]])).points
RefDelta(team) == SumIntFun([pair \in RefQualifying(team) |-> RefPoints(team, pair)])

\* The owc2025 teams of an owner that list a player, and the owner's booster delta.
RefOwnerTeams(o) ==
    {t \in 1..Len(teams_db) : /\ teams_db[t].user_osu_id = o
                              /\ teams_db[t].tournament = "owc2025"
                              /\ teams_db[t].player_ids # <<>>}
RefOwnerDelta(o) == SumIntFun([t \in RefOwnerTeams(o) |-> RefDelta(teams_db[t])])

Max0(x) == IF x < 0 THEN 0 ELSE x

\* C1 (as claimed): after update_user_scores_with_boosters every owner's score is
\* max(0, previous score + booster points), hence never negative.
C1_FlooredAtZero ==
    UsersWritten =>
        \A o \in DOMAIN users_db :
            users_db[o] = Max0(start.users[o] + RefOwnerDelta(o))

\* C2: after update_user_scores_with_boosters every owner's score is the score read
\* from the ledger plus the sum of the check_booster_activation points over the pairs
\* (rostered player, match of the batch) with a non-zero booster and at least one map
\* played; an owner without such a pair keeps the previous score.
C2_AdditiveDelta ==
    UsersWritten =>
        \A o \in DOMAIN users_db :
            users_db[o] = start.users[o] + RefOwnerDelta(o)

\* C2 witness: a score of 10, boosters 8 and 9 failing in both matches of the batch
\* (-30 in all), -20 written.
C2_Witness ==
    /\ UsersWritten
    /\ Len(all_match_data) = 2
    /\ start.users[100] = 10
    /\ RefOwnerDelta(100) = -30
    /\ users_db[100] = -20

\* C3: for every rostered player and every match of the batch in which the player has
\* no map played, the pair adds 0 points whatever booster is assigned.
C3_NoMapsNoPoints ==
    PlayersWritten =>
        \A t \in 1..Len(teams_db) : \A j \in 1..Len(teams_db[t].player_ids) :
            \A k \in 1..Len(all_match_data) : \A b \in BoosterIds :
                (RefUid(teams_db[t], j) # 0 /\ RefMapsIn(RefUid(teams_db[t], j), k) = 0) =>
                    PairPoints(players_db, Put(EmptyDict, teams_db[t].player_ids[j], b),
                               teams_db[t].player_ids[j], all_match_data[k][2],
                               all_match_pscores[k], all_match_details[k]) = 0

\* C3 witness: boosters 11, 11 and 5 on the players 12, 2 and 3; player 12 sits out
\* the second match and player 3 both, and the owner gains -5 + 5 + 5.
C3_Witness ==
    /\ UsersWritten
    /\ match_ids = <<2, 6>>
    /\ RefBooster(teams_db[1], 3) = 5
    /\ RefMapsIn(12, 2) = 0
    /\ RefMapsIn(3, 1) = 0
    /\ users_db[100] = start.users[100] + 5

\* The matches of the batch in which the player of roster row id has a result.
RefResultsOf(id) ==
    {k \in 1..Len(all_match_pscores) : players_db[id].uid \in DOMAIN all_match_pscores[k]}
RefTotalMaps(id) ==
    SumIntFun([k \in RefResultsOf(id) |-> all_match_pscores[k][players_db[id].uid].maps_played])
RefWeightedSum(id) ==
    SumRealFun([k \in RefResultsOf(id) |->
                   RealScale(RatInt(all_match_pscores[k][players_db[id].uid].maps_played),
                             RealOf(all_match_pscores[k][players_db[id].uid].pscore))])
RefPermutations(n) == {f \in [1..n -> 1..n] : \A i, j \in 1..n : f[i] = f[j] => i = j}

\* C7 (as claimed): after update_player_pscores every roster player with a result in
\* the batch has p_score = sum(pscore_k * maps_k) / sum(maps_k), matches_played = the
\* number of matches with a result and total_maps_played = sum(maps_k); every
\* permutation of the batch gives the same table.
C7_WeightedMean ==
    PlayersWritten =>
        /\ \A id \in 1..Len(players_db) :
              RefResultsOf(id) # {} =>
                  /\ players_db[id].matches_played = Cardinality(RefResultsOf(id))
                  /\ players_db[id].total_maps_played = RefTotalMaps(id)
                  /\ RealScale(RatInt(RefTotalMaps(id)), players_db[id].p_score)
                        = RefWeightedSum(id)
        /\ \A f \in RefPermutations(Len(all_match_pscores)) :
              update_player_pscores(start.players,
                    [i \in 1..Len(all_match_pscores) |-> all_match_pscores[f[i]]])
                 = players_db

\* C8 (as claimed): after update_player_pscores the row of a player with a result is
\* what the batch gives on any earlier table, the row of a player without a result
\* in the batch is as before, and a second run with the batch changes nothing.
C8_Overwrite ==
    PlayersWritten =>
        /\ \A id \in 1..Len(players_db) :
              IF RefResultsOf(id) # {}
              THEN players_db[id] = update_player_pscores(FreshPlayers, all_match_pscores)[id]
              ELSE players_db[id] = start.players[id]
        /\ update_player_pscores(players_db, all_match_pscores) = players_db

-----------------------------------------------------------------------------
(* Claims about the single boosters                                        *)

\* The profile check_booster_activation was last called with.
CalledProfile == PlayerDataFor(details, call.user_id)
Called(booster_id) == phase = "evaluated" /\ call.booster_id = booster_id

\* Booster 2 restated: the teams of the match, the summed score of a team on the map
\* of event e, and the maps on which some entry carries a team label.
RefTeamsAt(e) == {md[e].scores[i].team : i \in 1..Len(md[e].scores)} \ {""}
RefTeams == UNION {RefTeamsAt(e) : e \in 1..Len(md)}
RefTeamSum(e, team) ==
    SumIntFun([i \in {x \in 1..Len(md[e].scores) : md[e].scores[x].team = team} |->
                  md[e].scores[i].score])
RefContested == {e \in 1..Len(md) : md[e].has_game /\ RefTeamsAt(e) # {}}
RefFirstEntry(e, team) ==
    CHOOSE i \in 1..Len(md[e].scores) :
        /\ md[e].scores[i].team = team
        /\ \A j \in 1..(i - 1) : md[e].scores[j].team # team

\* A team strictly ahead of every other team on the map of event e, and the maps a
\* team won in that sense.
RefAhead(e, team) ==
    /\ team \in RefTeamsAt(e)
    /\ \A other \in RefTeamsAt(e) \ {team} : RefTeamSum(e, other) < RefTeamSum(e, team)
RefStrictWins(team) == {e \in RefContested : RefAhead(e, team)}

\* The team credited with the map of event e when equal sums go to the team whose
\* entry comes first, and the maps credited to a team.
RefCredited(e, team) ==
    /\ team \in RefTeamsAt(e)
    /\ \A other \in RefTeamsAt(e) \ {team} :
          \/ RefTeamSum(e, other) < RefTeamSum(e, team)
          \/ /\ RefTeamSum(e, other) = RefTeamSum(e, team)
             /\ RefFirstEntry(e, team) < RefFirstEntry(e, other)
RefWins(team) == {e \in RefContested : RefCredited(e, team)}
RefFirstWin(team) == CHOOSE e \in RefWins(team) : \A x \in RefWins(team) : e <= x

\* The match winner when equal win counts go to the team that won a map first.
RefMatchWinner(team) ==
    /\ RefWins(team) # {}
    /\ \A other \in RefTeams \ {team} :
          \/ Cardinality(RefWins(other)) < Cardinality(RefWins(team))
          \/ /\ Cardinality(RefWins(other)) = Cardinality(RefWins(team))
             /\ RefFirstWin(team) < RefFirstWin(other)

\* C11 (as claimed): booster 2 activates exactly when the player's team won at least
\* one map and no team won more maps, a map being won by the team with the higher
\* summed score on it.
C11_MostMapsWon ==
    Called(2) =>
        (outcome.activated <=>
            /\ CalledProfile.team # ""
            /\ RefStrictWins(CalledProfile.team) # {}
            /\ \A other \in RefTeams :
                  Cardinality(RefStrictWins(other))
                      <= Cardinality(RefStrictWins(CalledProfile.team)))

\* C11 (amended): booster 2 returns (true, +5) exactly when the player's team has the
\* most map wins, where a map goes to the team with the highest summed score on it,
\* equal sums to the team entered first on the map and equal win counts to the team
\* that won a map first; otherwise (false, -5).  Total score plays no part.
C11_Captain ==
    Called(2) =>
        outcome = IF CalledProfile.team # "" /\ RefMatchWinner(CalledProfile.team)
                  THEN Result(TRUE, 5) ELSE Result(FALSE, -5)

\* C11 witness: red takes one map 900000 to 100000, blue the two others; the red
\* player has the larger total and does not activate.
C11_Witness ==
    /\ Called(2)
    /\ CalledProfile.team = "red"
    /\ Cardinality(RefWins("red")) = 1
    /\ Cardinality(RefWins("blue")) = 2
    /\ SumIntFun([e \in RefContested |-> RefTeamSum(e, "red")])
          > SumIntFun([e \in RefContested |-> RefTeamSum(e, "blue")])
    /\ outcome = Result(FALSE, -5)

\* The p-score distribution of the match restated: its players, and whether x is
\* its minimum or its maximum.
RefHasResult(u) == u \in DOMAIN results
RefIsMinimum(x) ==
    /\ \E u \in DOMAIN results : results[u].pscore = x
    /\ \A u \in DOMAIN results : SurdLeq(x, results[u].pscore)
RefIsMaximum(x) ==
    /\ \E u \in DOMAIN results : results[u].pscore = x
    /\ \A u \in DOMAIN results : SurdLeq(results[u].pscore, x)
RefPScoreOr(u, default) == IF RefHasResult(u) THEN results[u].pscore ELSE default

\* C12: booster 3 returns (true, +5) exactly when the player's p-score (1 without a
\* result) is the minimum of the match's p-scores and is <= 1, and (false, -2)
\* otherwise; when the p-scores are not empty and their minimum is <= 1, some player
\* with a result activates it.
C12_Noob ==
    /\ Called(3) =>
          outcome = IF /\ RefIsMinimum(RefPScoreOr(call.user_id, SurdOfRat(<<1, 1>>)))
                       /\ SurdLeq(RefPScoreOr(call.user_id, SurdOfRat(<<1, 1>>)),
                                  SurdOfRat(<<1, 1>>))
                    THEN Result(TRUE, 5) ELSE Result(FALSE, -2)
    /\ (/\ phase \in {"calculated", "evaluated"}
        /\ \E u \in DOMAIN results : /\ RefIsMinimum(results[u].pscore)
                                     /\ SurdLeq(results[u].pscore, SurdOfRat(<<1, 1>>)))
          => \E u \in DOMAIN results :
                check_booster_activation(3, PlayerDataFor(details, u), md,
                                         PScoresOf(results)).activated

\* C12 witness: the two players of the match both have the p-score 1, and player 3,
\* who did not play, activates booster 3 on the default 1.
C12_Witness ==
    /\ Called(3)
    /\ call.user_id = 3
    /\ DOMAIN results = {1, 2}
    /\ ~RefHasResult(3)
    /\ results[1].pscore = results[2].pscore
    /\ outcome = Result(TRUE, 5)

\* C13: booster 7 returns (true, +5) exactly when the player has a result whose
\* p-score is the maximum of the match's p-scores and is >= 1.8 (9/5), and
\* (false, -5) otherwise; a player without a result never activates it.
C13_Faker ==
    Called(7) =>
        outcome = IF /\ RefHasResult(call.user_id)
                     /\ RefIsMaximum(results[call.user_id].pscore)
                     /\ SurdLeq(SurdOfRat(<<9, 5>>), results[call.user_id].pscore)
                  THEN Result(TRUE, 5) ELSE Result(FALSE, -5)

\* C13 witness: two players share the maximum, which is exactly 9/5, and booster 7 is
\* activated for one of them.
C13_Witness ==
    /\ Called(7)
    /\ {1, 2} \subseteq DOMAIN results
    /\ results[1].pscore = SurdOfRat(<<9, 5>>)
    /\ results[2].pscore = SurdOfRat(<<9, 5>>)
    /\ outcome = Result(TRUE, 5)

\* The places of the player's score entries in the match, in the order of the list.
RefPlacesOf(u) == {pl \in RefPlaces(md) : RefEntry(md, pl).user_id = u}

\* C14: booster 9 returns (true, +5) exactly when a score entry of the player is
\* greater than 900000, and (false, -5) otherwise.
C14_Over900k ==
    Called(9) =>
        outcome = IF \E pl \in RefPlacesOf(call.user_id) : RefEntry(md, pl).score > 900000
                  THEN Result(TRUE, 5) ELSE Result(FALSE, -5)

\* C14 witness: the player's best score is exactly 900000 and booster 9 is not
\* activated.
C14_Witness ==
    /\ Called(9)
    /\ \E pl \in RefPlacesOf(call.user_id) : RefEntry(md, pl).score = 900000
    /\ \A pl \in RefPlacesOf(call.user_id) : RefEntry(md, pl).score <= 900000
    /\ outcome = Result(FALSE, -5)

\* C15: booster 11 returns (true, +5) exactly when the number of the player's score
\* entries equals the number of game events of the match, a game without score
\* entries included, and that number is not 0; (false, -5) otherwise.
C15_Overworking ==
    Called(11) =>
        outcome = IF /\ Cardinality(RefPlacesOf(call.user_id)) = Cardinality(RefGames(md))
                     /\ RefGames(md) # {}
                  THEN Result(TRUE, 5) ELSE Result(FALSE, -5)

\* C15 witness: the player has an entry on every game that has entries, the match
\* has a game without entries besides, and booster 11 is not activated.
C15_Witness ==
    /\ Called(11)
    /\ \E g \in RefGames(md) : md[g].scores = <<>>
    /\ \E g \in RefGames(md) : md[g].scores # <<>>
    /\ \A g \in RefGames(md) :
          md[g].scores # <<>> => \E pl \in RefPlacesOf(call.user_id) : pl[1] = g
    /\ outcome = Result(FALSE, -5)

\* C17: booster 5 returns (true, +5) exactly when the player has one score entry in
\* the match and no entry of that map has a higher score, and (false, -5) otherwise.
C17_OneMapTopScore ==
    Called(5) =>
        outcome = IF /\ Cardinality(RefPlacesOf(call.user_id)) = 1
                     /\ \A pl \in RefPlacesOf(call.user_id) :
                           \A i \in 1..Len(md[pl[1]].scores) :
                               md[pl[1]].scores[i].score <= RefEntry(md, pl).score
                  THEN Result(TRUE, 5) ELSE Result(FALSE, -5)

\* C17 witness: the player's only map is shared with another player at the same,
\* highest score, and booster 5 is activated.
C17_Witness ==
    /\ Called(5)
    /\ Cardinality(RefPlacesOf(call.user_id)) = 1
    /\ \E pl \in RefPlacesOf(call.user_id) :
          \E i \in 1..Len(md[pl[1]].scores) :
              /\ md[pl[1]].scores[i].user_id # call.user_id
              /\ md[pl[1]].scores[i].score = RefEntry(md, pl).score
    /\ outcome = Result(TRUE, 5)

\* The score entries of player u among the events with the given ids, as <<event
\* id, position in the game>>, and the order in which they were played.
RefIdsOf(all_events) == {all_events[i].id : i \in 1..Len(all_events)}
RefPlayedBy(u, ids) ==
    {pl \in {x \in ids : source.events[x].has_game} \X (1..2) :
        /\ pl[2] <= Len(source.events[pl[1]].scores)
        /\ source.events[pl[1]].scores[pl[2]].user_id = u}
RefEarlier(p, q) == p[1] < q[1] \/ (p[1] = q[1] /\ p[2] < q[2])
RefNextPlayed(played, p, q) ==
    /\ RefEarlier(p, q)
    /\ ~\E x \in played : RefEarlier(p, x) /\ RefEarlier(x, q)
RefGradeS(pl) == source.events[pl[1]].scores[pl[2]].rank \in {"S", "SS", "SH"}
RefThreeInARow(played) ==
    \E p \in played : \E q \in played : \E r \in played :
        /\ RefGradeS(p) /\ RefGradeS(q) /\ RefGradeS(r)
        /\ RefNextPlayed(played, p, q)
        /\ RefNextPlayed(played, q, r)

\* C16 (as claimed): booster 8 returns (true, +10) exactly when three maps the player
\* played one after the other, in the order they were played, are all graded S, SS
\* or SH, and (false, -10) otherwise.
C16_ThreeInARow ==
    (Called(8) /\ source # NoSource) =>
        outcome = IF RefThreeInARow(RefPlayedBy(call.user_id,
                                                RefIdsOf(AllEvents(source).events)))
                  THEN Result(TRUE, 10) ELSE Result(FALSE, -10)

-----------------------------------------------------------------------------
(* Claims about main                                                       *)

\* The fetch of a match fails when one of the requests it makes is answered with a
\* failure: it makes one request per full page and one more, MaxPages at most.
RefRequests(src) ==
    IF Len(src.events) \div PageLimit + 1 < MaxPages
    THEN Len(src.events) \div PageLimit + 1 ELSE MaxPages
RefFetchFails(src) == src.fail_at \in 1..RefRequests(src)

RefFailed(ids) == {k \in 1..Len(ids) : RefFetchFails(MatchSource(ids[k]))}
RefWithoutFailed(ids) == SelectSeq(ids, LAMBDA id : ~RefFetchFails(MatchSource(id)))

\* The ledger a run over the match ids writes over the ledger at the start: the
\* matches that yield p-scores, in batch order, handed to the two ledger writers.
RefLedgerOf(ids) ==
    LET usable == SelectSeq(ids, LAMBDA id :
                      DOMAIN calculate_match_pscore_with_details(fetch_match(id).events).results # {})
        calc == [k \in 1..Len(usable) |->
                    calculate_match_pscore_with_details(fetch_match(usable[k]).events)]
        pscores == [k \in 1..Len(usable) |-> calc[k].results]
        data == [k \in 1..Len(usable) |-> <<usable[k], fetch_match(usable[k]).events>>]
        player_details == [k \in 1..Len(usable) |-> calc[k].details]
        players == update_player_pscores(start.players, pscores)
    IN  IF usable = <<>> THEN start
        ELSE [players |-> players,
              users |-> update_user_scores_with_boosters(start.users, teams_db, players,
                                                         data, pscores, player_details)]

Ledger == [players |-> players_db, users |-> users_db]

\* C18: when the fetch of a match of the batch fails (and no ledger write raises),
\* the run ends normally and the ledger it leaves is the ledger a run over the batch
\* without the failed matches writes.
C18_FailedMatchExcluded ==
    (pc = "done" /\ RefFailed(match_ids) # {} /\ write_error = NoWriteError) =>
        /\ exit_code = 0
        /\ Ledger = RefLedgerOf(RefWithoutFailed(match_ids))

\* C19: a run that ends without a match in its lists, the batch being empty or no
\* match of it yielding a p-score, leaves the ledger as it was and returns 0.
C19_ZeroMatchesNoOp ==
    (pc = "done" /\ all_match_pscores = <<>>) =>
        /\ Ledger = start
        /\ exit_code = 0

\* C20: when the UPDATE for one player, or for one owner, raises, every other player
\* row, or every other owner's score, is what the writer leaves without the failure.
C20_WriteFailureIsolated ==
    (pc = "done" /\ write_error # NoWriteError) =>
        IF write_error.table = "players"
        THEN \A id \in 1..Len(players_db) : id # write_error.id =>
                players_db[id] = update_player_pscores(start.players, all_match_pscores)[id]
        ELSE \A o \in DOMAIN users_db : o # write_error.id =>
                users_db[o] = update_user_scores_with_boosters(
                                  start.users, teams_db, players_db, all_match_data,
                                  all_match_pscores, all_match_details)[o]

-----------------------------------------------------------------------------
(* Claims about players without a roster row                                *)

\* The osu ids of the roster rows, and a batch without the results of the players
\* who have no roster row.
RefRosterUids == {start.players[id].uid : id \in 1..Len(start.players)}
RefRosterOnly(match_pscores) ==
    [k \in 1..Len(match_pscores) |->
        [u \in DOMAIN match_pscores[k] \cap RefRosterUids |-> match_pscores[k][u]]]
RefUnknownPlayers ==
    UNION {DOMAIN all_match_pscores[k] : k \in 1..Len(all_match_pscores)} \ RefRosterUids

\* C21 (as claimed): the results of players without a roster row change no row: the
\* table update_player_pscores leaves is the one the batch gives without them.
C21_UnknownPlayerDropped ==
    (PlayersWritten /\ RefUnknownPlayers # {}) =>
        players_db = update_player_pscores(start.players, RefRosterOnly(all_match_pscores))

-----------------------------------------------------------------------------
(* Claims about update_scores.py                                           *)

-----------------------------------------------------------------------------
(* Claims about the maps and the counts of the p-score                     *)

\* The match without the games that are excluded from the ratios (no non-zero
\* score, or median 0).
RefWithoutExcluded(m) == SelectSeq(m, LAMBDA e : ~e.has_game \/ RefCounted(<<e>>, 1))
RefExcluded(m) == {g \in RefGames(m) : ~RefCounted(m, g)}

\* C23 (as claimed): a game without a non-zero score or with median 0 contributes to
\* no player's p-score and n: the match gives every player the p-score and the n it
\* gives without the excluded games.
C23_ExcludedMaps ==
    (phase = "calculated" /\ RefExcluded(md) # {}) =>
        LET r == calculate_match_pscore_with_details(RefWithoutExcluded(md)).results
        IN  /\ DOMAIN results = DOMAIN r
            /\ \A u \in DOMAIN results :
                  /\ results[u].pscore = r[u].pscore
                  /\ results[u].maps_played = r[u].maps_played

\* C24 (as claimed): the count of a player that enters the mean N (the player's
\* maps_played of the first loop, kept in the profile) is the n of the player's
\* result, and N is the mean of the results' n.
C24_MeanOfPlayedCounts ==
    (phase = "calculated" /\ DOMAIN results # {}) =>
        /\ \A u \in DOMAIN results : results[u].maps_played = details[u].maps_played
        /\ RefMeanMaps(md)
              = Rat(SumIntFun([u \in DOMAIN results |-> results[u].maps_played]),
                    Cardinality(DOMAIN results))

-----------------------------------------------------------------------------
(* Claims about the profiles                                               *)

\* The entries of player u that carry a team label, and the first of a set of
\* places in event order.
RefLabelled(u) ==
    {pl \in RefPlaces(md) : RefEntry(md, pl).user_id = u /\ RefEntry(md, pl).team # ""}
RefFirstPlace(S) ==
    CHOOSE p \in S : \A q \in S : p[1] < q[1] \/ (p[1] = q[1] /\ p[2] <= q[2])

\* C25: the team label of a profile is the team of the player's first entry, in
\* event order, that carries a team; it is empty only if no entry carries one.
C25_FirstTeamLabel ==
    phase = "calculated" =>
        \A u \in DOMAIN details :
            details[u].team = IF RefLabelled(u) = {} THEN ""
                              ELSE RefEntry(md, RefFirstPlace(RefLabelled(u))).team

\* Player 1 enters without a label, then as blue, then as red: the label is blue.
C25_Witness ==
    /\ phase = "calculated"
    /\ 1 \in DOMAIN details
    /\ details[1].team = "blue"
    /\ Len(md) = 2
    /\ \E i \in 1..Len(md[2].scores) :
          md[2].scores[i].user_id = 1 /\ md[2].scores[i].team = "red"
    /\ RefEntry(md, <<1, 1>>).team = ""

-----------------------------------------------------------------------------
(* Claims about the order of the stages in main                            *)

\* The matches of the batch that reach the lists (positions in match_ids), and the
\* calculator's complete output for the match at a position.
RefUsable ==
    {i \in 1..Len(match_ids) :
        /\ fetch_match(match_ids[i]).ok
        /\ DOMAIN calculate_match_pscore_with_details(fetch_match(match_ids[i]).events).results # {}}
RefCalculated(i) == calculate_match_pscore_with_details(fetch_match(match_ids[i]).events)

\* The points of the player at roster position j for the match at batch position i,
\* evaluated on that match's events, profiles and complete p-score distribution.
RefBarrierPoints(team, j, i) ==
    LET profile == PlayerDataFor(RefCalculated(i).details, RefUid(team, j))
    IN  IF RefBooster(team, j) = 0 \/ RefUid(team, j) = 0 \/ profile.maps_played = 0 THEN 0
        ELSE check_booster_activation(RefBooster(team, j), profile,
                                      fetch_match(match_ids[i]).events,
                                      PScoresOf(RefCalculated(i).results)).points
RefBarrierDelta(o) ==
    SumIntFun([x \in UNION {{<<t, j, i>> : j \in 1..Len(teams_db[t].player_ids),
                                           i \in RefUsable} : t \in RefOwnerTeams(o)} |->
                  RefBarrierPoints(teams_db[x[1]], x[2], x[3])])

\* C26: update_user_scores_with_boosters is entered only after the match loop has
\* ended, with the calculator's complete p-scores of every match in the lists; the
\* score it writes is the sum of the boosters evaluated on each match's own events,
\* profiles and complete p-score distribution.
C26_Barrier ==
    /\ pc = "users" =>
          /\ idx > Len(match_ids)
          /\ \A k \in 1..Len(all_match_data) :
                all_match_pscores[k]
                   = calculate_match_pscore_with_details(all_match_data[k][2]).results
    /\ UsersWritten =>
          \A o \in DOMAIN users_db : users_db[o] = start.users[o] + RefBarrierDelta(o)

\* Two matches with different p-score distributions, a roster with boosters 3 and 7
\* that depend on them, and a score changed by the evaluation.
C26_Witness ==
    /\ UsersWritten
    /\ Len(all_match_pscores) = 2
    /\ all_match_pscores[1] # all_match_pscores[2]
    /\ RefBooster(teams_db[1], 1) = 3
    /\ users_db[100] # start.users[100]

\* The k-th smallest element of a set of integers.
RefNth(S, k) == CHOOSE i \in S : Cardinality({x \in S : x < i}) = k - 1

\* The positions of match_ids the loop has gone through that reach the lists.
RefAppended ==
    {i \in 1..(idx - 1) :
        /\ fetch_match(match_ids[i]).ok
        /\ DOMAIN RefCalculated(i).results # {}}

\* C27: at every point of the match loop the three lists have one element for each
\* match gone through that was fetched and has p-scores, in batch order, and the
\* k-th elements of the three lists are the id and events, the p-scores and the
\* profiles of the same match.
C27_ListsAligned ==
    LET appended == RefAppended
    IN  /\ Len(all_match_pscores) = Cardinality(appended)
        /\ Len(all_match_data) = Cardinality(appended)
        /\ Len(all_match_details) = Cardinality(appended)
        /\ \A k \in 1..Cardinality(appended) :
              LET i == RefNth(appended, k)
                  calculated == RefCalculated(i)
              IN  /\ all_match_data[k] = <<match_ids[i], fetch_match(match_ids[i]).events>>
                  /\ all_match_pscores[k] = calculated.results
                  /\ all_match_details[k] = calculated.details

\* A match that raised and a match without p-scores have been gone through, or one
\* of them before a match that was appended.
C27_Witness ==
    /\ pc = "loop"
    /\ idx = 3
    /\ match_ids[1] \in {4, 5}
    /\ Len(all_match_data) = 1
    /\ all_match_data[1][1] = match_ids[2]

-----------------------------------------------------------------------------
(* Claims about the results of the calculator                              *)

\* No game holds two entries of one player.
RefOneEntryPerMap(m) ==
    \A g \in RefGames(m) : \A i, j \in 1..Len(m[g].scores) :
        (m[g].scores[i].user_id # 0 /\ m[g].scores[i].user_id = m[g].scores[j].user_id)
            => i = j

\* C28: every player with a result has a profile, the result's total_maps is the
\* number of game events and its maps_played is at least 1; when no game holds two
\* entries of one player, maps_played <= the profile's maps_played <= total_maps.
C28_ResultCounts ==
    phase = "calculated" =>
        \A u \in DOMAIN results :
            /\ u \in DOMAIN details
            /\ results[u].total_maps = Cardinality(RefGames(md))
            /\ results[u].maps_played >= 1
            /\ RefOneEntryPerMap(md) =>
                  /\ results[u].maps_played <= details[u].maps_played
                  /\ details[u].maps_played <= results[u].total_maps

\* A player with a result whose n is below the profile's count, which is the number
\* of games.
C28_Witness ==
    /\ phase = "calculated"
    /\ RefOneEntryPerMap(md)
    /\ \E u \in DOMAIN results :
          /\ results[u].maps_played < details[u].maps_played
          /\ details[u].maps_played = results[u].total_maps

-----------------------------------------------------------------------------
(* Claims about fetch_match                                                *)

\* The number of requests after which the fetch has to stop: a source that keeps to
\* the paging serves one page per PageLimit events and then a shorter or empty one;
\* a source that repeats events brings, on the second request, nothing new or a list
\* that is no longer a multiple of PageLimit long; a failing request ends the fetch.
RefPages(src) ==
    LET pages == IF src.order \in {"asc", "desc"} THEN RefRequests(src)
                 ELSE IF Len(src.events) >= PageLimit THEN 2 ELSE 1
    IN  IF src.fail_at \in 1..pages THEN src.fail_at ELSE pages

\* C29: fetch_match makes at most MaxPages requests and stops at the first page that
\* fails, is empty or brings no new event id; no event id is twice in the list it
\* assembles (no page of the model's sources holds an id twice).
C29_FetchStops ==
    phase \in {"fetched", "failed"} =>
        LET fetched == AllEvents(source)
        IN  /\ fetched.page <= MaxPages
            /\ fetched.page = RefPages(source)
            /\ \A i, j \in 1..Len(fetched.events) :
                  fetched.events[i].id = fetched.events[j].id => i = j

\* The match is longer than MaxPages pages: the fetch ends with MaxPages requests.
C29_Witness ==
    /\ phase = "fetched"
    /\ Len(source.events) > MaxPages * PageLimit
    /\ Len(md) = MaxPages * PageLimit

-----------------------------------------------------------------------------
(* Claims about save_team                                                  *)

\* The cost of the player whose id is written as the string id.
RefCost(id) ==
    LET pid == CHOOSE x \in DOMAIN players_db : ToString(x) = id
    IN  IF players_db[pid].has_cost THEN players_db[pid].cost ELSE DEFAULT_PLAYER_COST

\* C30: every stored team lists at most MAX_TEAM_SIZE player ids, its budget_used is
\* the sum of the costs of the listed players (a player listed twice counts twice)
\* and at most TOTAL_BUDGET; no two rows have the same user and tournament; a
\* request answered with status 400 leaves the table as it was.
C30_StoredTeams ==
    /\ \A t \in 1..Len(teams_db) :
          /\ Len(teams_db[t].player_ids) <= MAX_TEAM_SIZE
          /\ teams_db[t].budget_used
                = SumIntFun([i \in 1..Len(teams_db[t].player_ids) |->
                                RefCost(teams_db[t].player_ids[i])])
          /\ teams_db[t].budget_used <= TOTAL_BUDGET
    /\ \A t, x \in 1..Len(teams_db) :
          (/\ teams_db[t].user_osu_id = teams_db[x].user_osu_id
           /\ teams_db[t].tournament = teams_db[x].tournament) => t = x
    /\ saving.status = 400 => teams_db = saving.before

\* A team at the budget is stored, and a later request of its user over the budget
\* is rejected with the team kept.
C30_Witness ==
    /\ Len(teams_db) = 1
    /\ teams_db[1].budget_used = TOTAL_BUDGET
    /\ saving.status = 400
    /\ saving.request.player_ids = <<1, 2, 3>>
    /\ saving.request.user_osu_id = 100

=============================================================================
